---------------------------- MODULE Spec2Model ----------------------------
(***************************************************************************)
(* Model of media-embed-tracer: the per-platform URL recognisers and       *)
(* normalisers (src/src/platforms), the embed assembler                    *)
(* (BasePlatform.process_article), the duplicate-suppression gate          *)
(* (SheetsManager.write_embeds_batch) and the run loop (main.run).         *)
(*                                                                         *)
(* Strings are modelled as sequences of lexemes ("tokens"): a token is     *)
(* either one delimiter character ("/", "?", "#", "&", "=", " ", ...) or   *)
(* a run of characters that every regular expression of the source treats  *)
(* as a unit ("https://", "twitter.com", "status", "bob", "999").  The     *)
(* regular expressions of the source are data (sequences of items) run by  *)
(* one matcher with Python's semantics: leftmost match, greedy             *)
(* repetition, backtracking.                                               *)
(***************************************************************************)
EXTENDS Naturals, Sequences, FiniteSets, TLC

VARIABLES
    log,        \* the data rows of the worksheet "All Embeds" (rows 2..), in order
    header,     \* row 1 of the worksheet: "absent" (no worksheet), "bad", "good"
    wpc,        \* per writer: position in main.run / write_embeds_batch
    runs,       \* per writer: number of runs started
    entries,    \* per writer: the article entries still to process in this run
    all_embeds, \* per writer: main.run's all_embeds, the batch
    existing,   \* per writer: existing_urls as read by get_existing_post_urls
    new_embeds, \* per writer: the records filtered as new
    ret,        \* per writer: the pair returned by write_embeds_batch
    io,         \* per writer: what the current call did to the log (history)
    rp,         \* per writer: the reposting pass (post_pending_to_bluesky) of the run
    asm,        \* the last BasePlatform.process_article call (SpecAssemble)
    nrm         \* the last normalize_url / extract_author evaluation (SpecNorm)

vars == <<log, header, wpc, runs, entries, all_embeds, existing, new_embeds,
          ret, io, rp, asm, nrm>>

-----------------------------------------------------------------------------
(* Tokens and character classes                                            *)

\* re.IGNORECASE: the tokens of the inputs that differ from a pattern literal in case only
Lower(t) ==
    CASE t = "Twitter.com" -> "twitter.com"
      [] t = "Status" -> "status"
      [] t = "P" -> "p"
      [] OTHER -> t

\* tokens that contain the character "/"
SlashToks == {"/", "https://", "http://", "at://", "://", "</a>", "</blockquote>", "</div>",
              "</iframe>"}

\* whitespace (\s, str.strip)
SpaceToks == {" "}

\* tokens made of decimal digits only (\d+)
DigitToks == {"1", "2", "5", "20", "77", "999", "123"}

\* tokens made of ASCII letters and digits only ([a-zA-Z0-9]+)
AlnumToks == DigitToks \cup
    {"xyz", "abc", "abc123", "bob", "alice", "al", "status", "post", "posts", "video",
     "videos", "profile", "watch", "reel", "reels", "photo", "permalink", "p", "tv", "P",
     "Status", "ref", "s", "id", "fbid", "v", "x", "share", "sharer", "home", "homer",
     "login", "stories", "plugins", "ZM1", "amp"}

\* [a-zA-Z0-9_-]+
CodeToks == AlnumToks \cup {"story_fbid", "a_b-c"}

\* [a-zA-Z0-9_.]+
ProfileToks == AlnumToks \cup {"story_fbid", "alice.bsky.social", "x.com", "twitter.com"}

\* the characters FACEBOOK_GENERAL_PATTERN's [^\s"'<>]+ stops at
HtmlStopToks == SpaceToks \cup {"\"", "'", "<", ">", "<a href=", "</a>", "<blockquote",
                                "</blockquote>", "<div", "</div>", "<iframe src=",
                                "</iframe>"}

-----------------------------------------------------------------------------
(* Regular expressions: re.compile, Pattern.search/match/finditer           *)

\* one literal position: any token of S (an alternation)
Lit(S) == [k |-> "lit", s |-> S, neg |-> FALSE, g |-> 0]
\* (?:S)? : an optional literal
Opt(S) == [k |-> "opt", s |-> S, neg |-> FALSE, g |-> 0]
\* ([S]+) : one or more tokens of S, captured as group g (0: not captured)
Plus(S, g) == [k |-> "plus", s |-> S, neg |-> FALSE, g |-> g]
\* ([^S]+)
PlusNot(S, g) == [k |-> "plus", s |-> S, neg |-> TRUE, g |-> g]
\* $
EndAnchor == [k |-> "end", s |-> {}, neg |-> FALSE, g |-> 0]

NoMatch == [ok |-> FALSE, start |-> 0, end |-> 0, g1 |-> <<>>, g2 |-> <<>>]

InClass(item, t) == (Lower(t) \in item.s) # item.neg

RECURSIVE RunLen(_, _, _)
\* the number of consecutive tokens of s from position i that the class of item accepts
RunLen(item, s, i) ==
    IF i > Len(s) \/ ~InClass(item, s[i]) THEN 0 ELSE 1 + RunLen(item, s, i + 1)

SetGroup(r, g, toks) ==
    IF g = 1 THEN [r EXCEPT !.g1 = toks]
    ELSE IF g = 2 THEN [r EXCEPT !.g2 = toks]
    ELSE r

RECURSIVE MatchFrom(_, _, _, _)
RECURSIVE TryPlus(_, _, _, _, _)
\* pat[k..] matched at position i of s; .end is the position after the match
MatchFrom(pat, k, s, i) ==
    IF k > Len(pat) THEN [ok |-> TRUE, start |-> 0, end |-> i, g1 |-> <<>>, g2 |-> <<>>]
    ELSE LET it == pat[k] IN
         CASE it.k = "lit" ->
                IF i <= Len(s) /\ InClass(it, s[i]) THEN MatchFrom(pat, k + 1, s, i + 1)
                ELSE NoMatch
           [] it.k = "opt" ->
                LET with == IF i <= Len(s) /\ InClass(it, s[i])
                            THEN MatchFrom(pat, k + 1, s, i + 1) ELSE NoMatch
                IN IF with.ok THEN with ELSE MatchFrom(pat, k + 1, s, i)
           [] it.k = "plus" -> TryPlus(pat, k, s, i, RunLen(it, s, i))
           [] it.k = "end" ->
                IF i = Len(s) + 1 THEN MatchFrom(pat, k + 1, s, i) ELSE NoMatch

\* greedy repetition: the longest run first, giving tokens back until the rest matches
TryPlus(pat, k, s, i, n) ==
    IF n < 1 THEN NoMatch
    ELSE LET r == MatchFrom(pat, k + 1, s, i + n) IN
         IF r.ok THEN SetGroup(r, pat[k].g, SubSeq(s, i, i + n - 1))
         ELSE TryPlus(pat, k, s, i, n - 1)

\* Pattern.match: at the start of s
ReMatch(pat, s) == [MatchFrom(pat, 1, s, 1) EXCEPT !.start = 1]

RECURSIVE SearchFrom(_, _, _)
\* Pattern.search from position i: the leftmost match
SearchFrom(pat, s, i) ==
    IF i > Len(s) THEN NoMatch
    ELSE LET r == MatchFrom(pat, 1, s, i) IN
         IF r.ok THEN [r EXCEPT !.start = i] ELSE SearchFrom(pat, s, i + 1)

ReSearch(pat, s) == SearchFrom(pat, s, 1)

\* match.group(0)
Group0(s, m) == SubSeq(s, m.start, m.end - 1)

RECURSIVE FindIterFrom(_, _, _)
\* Pattern.finditer: the non-overlapping matches, left to right, as group(0) texts
FindIterFrom(pat, s, i) ==
    LET m == SearchFrom(pat, s, i) IN
    IF ~m.ok THEN <<>> ELSE <<m>> \o FindIterFrom(pat, s, m.end)

FindIter(pat, s) == FindIterFrom(pat, s, 1)

-----------------------------------------------------------------------------
(* str and urllib.parse                                                    *)

RECURSIVE LStrip(_)
LStrip(s) == IF s # <<>> /\ Head(s) \in SpaceToks THEN LStrip(Tail(s)) ELSE s

RECURSIVE RStrip(_)
RStrip(s) ==
    IF s # <<>> /\ s[Len(s)] \in SpaceToks THEN RStrip(SubSeq(s, 1, Len(s) - 1)) ELSE s

\* str.strip
Strip(s) == RStrip(LStrip(s))

RECURSIVE IndexOfFrom(_, _, _)
\* the first position >= i of s holding a token of S, or Len(s) + 1
IndexOfFrom(S, s, i) ==
    IF i > Len(s) \/ s[i] \in S THEN i ELSE IndexOfFrom(S, s, i + 1)

\* str.startswith / the "in" substring test, at token granularity
StartsWith(s, p) == Len(s) >= Len(p) /\ SubSeq(s, 1, Len(p)) = p
Contains(s, p) == \E i \in 1..(Len(s) + 1 - Len(p)) : SubSeq(s, i, i + Len(p) - 1) = p

SchemeToks == {"https://", "http://", "at://"}

\* urlparse: scheme, netloc, path, query, fragment (scheme lower-cased, no "://")
UrlParse(url) ==
    LET hasScheme == url # <<>> /\ url[1] \in SchemeToks
        rest == IF hasScheme THEN Tail(url) ELSE url
        fragAt == IndexOfFrom({"#"}, rest, 1)
        noFrag == SubSeq(rest, 1, fragAt - 1)
        qAt == IndexOfFrom({"?"}, noFrag, 1)
        noQuery == SubSeq(noFrag, 1, qAt - 1)
        pathAt == IF hasScheme THEN IndexOfFrom({"/"}, noQuery, 1) ELSE 1
    IN [scheme |-> IF hasScheme THEN url[1] ELSE "://",
        netloc |-> SubSeq(noQuery, 1, pathAt - 1),
        path |-> SubSeq(noQuery, pathAt, Len(noQuery)),
        query |-> SubSeq(noFrag, qAt + 1, Len(noFrag)),
        fragment |-> SubSeq(rest, fragAt + 1, Len(rest))]

\* tokens holding a "[" without its "]"
BracketToks == {"[x"}

\* urlsplit raises ValueError("Invalid IPv6 URL") when the netloc holds a "[" without
\* a "]" (or the reverse)
UrlParseRaises(url) ==
    \E i \in 1..Len(UrlParse(url).netloc) : UrlParse(url).netloc[i] \in BracketToks

\* urllib.parse.unquote of one token: %XX escapes decoded
UnquoteTok(t) ==
    CASE t = "%23" -> "#"
      [] t = "%26" -> "&"
      [] t = "%3D" -> "="
      [] t = "%2F" -> "/"
      [] t = "https%3A%2F%2F" -> "https://"
      [] OTHER -> t

Unquote(s) == [i \in 1..Len(s) |-> UnquoteTok(s[i])]

RECURSIVE SplitOn(_, _)
\* str.split(sep): the pieces of s between the tokens sep
SplitOn(s, sep) ==
    LET at == IndexOfFrom({sep}, s, 1) IN
    IF at > Len(s) THEN <<s>>
    ELSE <<SubSeq(s, 1, at - 1)>> \o SplitOn(SubSeq(s, at + 1, Len(s)), sep)

\* parse_qs: the (name, value) pairs in order, names and values unquoted ("+" is a
\* space), pairs without "=" or with an empty value left out
ParseQsl(query) ==
    LET pieces == SplitOn(query, "&")
        Plus2Space(s) == [i \in 1..Len(s) |-> IF s[i] = "+" THEN " " ELSE s[i]]
        Pair(p) == LET eq == IndexOfFrom({"="}, p, 1) IN
                   [has |-> eq <= Len(p) /\ eq < Len(p),
                    name |-> Unquote(Plus2Space(SubSeq(p, 1, eq - 1))),
                    value |-> Unquote(Plus2Space(SubSeq(p, eq + 1, Len(p))))]
    IN SelectSeq([i \in 1..Len(pieces) |-> Pair(pieces[i])], LAMBDA q : q.has)

\* parse_qs(query): whether key is present, and query[key][0]
QsHas(query, key) == \E i \in 1..Len(ParseQsl(query)) : ParseQsl(query)[i].name = <<key>>
QsFirst(query, key) ==
    LET q == ParseQsl(query)
        i == CHOOSE j \in 1..Len(q) :
                 q[j].name = <<key>> /\ \A h \in 1..(j - 1) : q[h].name # <<key>>
    IN q[i].value

-----------------------------------------------------------------------------
(* Values shared by the platforms                                           *)

\* Python's None where the source returns "str | None"
NoneVal == <<"<None>">>
\* the truth value of "if x:" for a str | None
Truthy(x) == x # NoneVal /\ x # <<>>
\* an exception leaving a function
Raised == <<"<raise>">>

Http == Lit({"https://", "http://"})
Www == Opt({"www."})
Slash == Lit({"/"})

\* The answers of the network for the span of one call:
\*   expand: requests.head on a short link: "raise", or the URL the redirects end at
\*   plc: requests.get on plc.directory: "raise", "404", "badjson" or "200"
\*   aka: the alsoKnownAs list of the directory document
Nets ==
    [expand : {<<"raise">>,
               <<"https://", "www.", "tiktok.com", "/", "@", "bob", "/", "video", "/", "77",
                 "?", "ref", "=", "x">>,
               <<"https://", "www.", "tiktok.com", "/">>},
     plc : {"raise", "404", "badjson", "200"},
     aka : {<<>>,
            << <<"https://", "alice.example">> >>,
            << <<"at://">> >>,
            << <<"https://", "alice.example">>, <<"at://", "alice.bsky.social">> >>}]

-----------------------------------------------------------------------------
(* platforms/twitter.py                                                     *)

TWITTER_URL_PATTERN ==
    <<Http, Lit({"twitter.com", "x.com"}), Slash, PlusNot(SlashToks, 1), Slash,
      Lit({"status"}), Slash, Plus(DigitToks, 2)>>

Twitter_extract_author(post_url) ==
    LET match == ReSearch(TWITTER_URL_PATTERN, post_url) IN
    IF match.ok THEN <<"@">> \o match.g1 ELSE <<"unknown">>

Twitter_normalize_url(raw) ==
    LET url == Strip(raw)
        match == ReSearch(TWITTER_URL_PATTERN, url)
    IN IF UrlParseRaises(url) THEN Raised
       ELSE IF match.ok
       THEN <<"https://", "x.com", "/">> \o match.g1 \o <<"/", "status", "/">> \o match.g2
       ELSE url

-----------------------------------------------------------------------------
(* platforms/bluesky.py                                                     *)

BSKY_URL_PATTERN ==
    <<Http, Lit({"bsky.app"}), Slash, Lit({"profile"}), Slash, PlusNot(SlashToks, 1),
      Slash, Lit({"post"}), Slash, Plus(AlnumToks, 2)>>

AT_URI_PATTERN ==
    <<Lit({"at://"}), PlusNot(SlashToks, 1), Slash, Lit({"app.bsky.feed.post"}), Slash,
      Plus(AlnumToks, 2)>>

DID_PATTERN == <<Lit({"did:plc:"}), Plus(AlnumToks, 0), EndAnchor>>

BskyUrl(handle, post_id) ==
    <<"https://", "bsky.app", "/", "profile", "/">> \o handle \o <<"/", "post", "/">>
        \o post_id

at_uri_to_url(at_uri) ==
    LET match == ReMatch(AT_URI_PATTERN, at_uri) IN
    IF match.ok THEN BskyUrl(match.g1, match.g2) ELSE NoneVal

RECURSIVE FirstAtHandle(_)
\* the loop over alsoKnownAs: the first entry starting with at://, with at:// removed
FirstAtHandle(akas) ==
    IF akas = <<>> THEN NoneVal
    ELSE IF StartsWith(Head(akas), <<"at://">>)
         THEN SelectSeq(Head(akas), LAMBDA t : t # "at://")
         ELSE FirstAtHandle(Tail(akas))

\* the try block of _resolve_did: requests.get or response.json() may raise
resolve_did_try(did, net) ==
    IF net.plc \in {"raise", "badjson"} THEN Raised
    ELSE IF net.plc = "200" THEN FirstAtHandle(net.aka)
    ELSE NoneVal

\* _resolve_did: the except clause logs, and None is returned
resolve_did(did, net) ==
    LET r == resolve_did_try(did, net) IN IF r = Raised THEN NoneVal ELSE r

\* extract_author returning whatever _resolve_did gave, without the fallback to the DID
Bluesky_extract_author_nofallback(post_url, net) ==
    LET match == ReSearch(BSKY_URL_PATTERN, post_url)
        handle_or_did == match.g1
    IN IF match.ok
       THEN IF ReMatch(DID_PATTERN, handle_or_did).ok
            THEN resolve_did(handle_or_did, net)
            ELSE handle_or_did
       ELSE <<"unknown">>

Bluesky_extract_author(post_url, net) ==
    LET match == ReSearch(BSKY_URL_PATTERN, post_url)
        handle_or_did == match.g1
        resolved == resolve_did(handle_or_did, net)
    IN IF match.ok
       THEN IF ReMatch(DID_PATTERN, handle_or_did).ok
            THEN (IF Truthy(resolved) THEN resolved ELSE handle_or_did)
            ELSE handle_or_did
       ELSE <<"unknown">>

Bluesky_normalize_url(raw) ==
    LET url == Strip(raw)
        parsed == UrlParse(url)
        clean_url == <<parsed.scheme>> \o parsed.netloc \o parsed.path
        match == ReSearch(BSKY_URL_PATTERN, clean_url)
    IN IF UrlParseRaises(url) THEN Raised
       ELSE IF match.ok THEN BskyUrl(match.g1, match.g2) ELSE clean_url

-----------------------------------------------------------------------------
(* platforms/tiktok.py                                                      *)

TIKTOK_URL_PATTERN ==
    <<Http, Www, Lit({"tiktok.com"}), Slash, Lit({"@"}), PlusNot(SlashToks, 1), Slash,
      Lit({"video"}), Slash, Plus(DigitToks, 2)>>

TIKTOK_SHORT_PATTERN ==
    <<Http, Lit({"vm.tiktok.com", "vt.tiktok.com"}), Slash, Plus(AlnumToks, 1)>>

\* the try block of _expand_short_url: requests.head may raise
expand_short_url_try(short_url, net) ==
    IF net.expand = <<"raise">> THEN Raised
    ELSE IF ReSearch(TIKTOK_URL_PATTERN, net.expand).ok THEN net.expand
    ELSE NoneVal

\* a variant that hands back the URL it ended at unchecked, and the short link
\* when the lookup raised
expand_short_url_unchecked(short_url, net) ==
    IF net.expand = <<"raise">> THEN short_url ELSE net.expand

\* _expand_short_url: the except clause logs, and None is returned
expand_short_url(short_url, net) ==
    LET r == expand_short_url_try(short_url, net) IN IF r = Raised THEN NoneVal ELSE r

TikTok_extract_author(post_url) ==
    LET match == ReSearch(TIKTOK_URL_PATTERN, post_url) IN
    IF match.ok THEN <<"@">> \o match.g1 ELSE <<"unknown">>

TikTok_normalize_url(raw, net) ==
    LET stripped == Strip(raw)
        expanded == expand_short_url(stripped, net)
        url == IF ReSearch(TIKTOK_SHORT_PATTERN, stripped).ok /\ Truthy(expanded)
               THEN expanded ELSE stripped
        match == ReSearch(TIKTOK_URL_PATTERN, url)
    IN IF match.ok
       THEN <<"https://", "www.", "tiktok.com", "/", "@">> \o match.g1
                \o <<"/", "video", "/">> \o match.g2
       ELSE url

-----------------------------------------------------------------------------
(* platforms/instagram.py                                                   *)

INSTAGRAM_URL_PATTERN ==
    <<Http, Www, Lit({"instagram.com"}), Slash, Lit({"p", "reel", "reels", "tv"}), Slash,
      Plus(CodeToks, 1)>>

Instagram_extract_author(post_url) ==
    IF ReSearch(INSTAGRAM_URL_PATTERN, post_url).ok THEN <<"(see post)">>
    ELSE <<"unknown">>

Instagram_normalize_url(raw) ==
    LET url == Strip(raw)
        match == ReSearch(INSTAGRAM_URL_PATTERN, url)
        g0 == Group0(url, match)
        full_match == IF g0[Len(g0)] # "/" THEN g0 \o <<"/">> ELSE g0
        parsed == UrlParse(full_match)
    IN IF match.ok THEN <<"https://", "www.", "instagram.com">> \o parsed.path ELSE url

-----------------------------------------------------------------------------
(* platforms/facebook.py                                                    *)

Fb == Lit({"facebook.com"})

FACEBOOK_POST_PATTERNS ==
    << <<Http, Www, Fb, Slash, PlusNot(SlashToks, 1), Slash, Lit({"posts"}), Slash,
         Plus(AlnumToks, 2)>>,
       <<Http, Www, Fb, Slash, Lit({"permalink"}), Lit({".php"}), Lit({"?"})>>,
       <<Http, Www, Fb, Slash, Lit({"photo"}), Opt({".php"}), Lit({"?"})>>,
       <<Http, Www, Fb, Slash, Lit({"watch"}), Opt({"/"}), Lit({"?"}), Lit({"v"}),
         Lit({"="}), Plus(DigitToks, 1)>>,
       <<Http, Www, Fb, Slash, Lit({"reel"}), Slash, Plus(DigitToks, 1)>>,
       <<Http, Www, Fb, Slash, PlusNot(SlashToks, 1), Slash, Lit({"videos"}), Slash,
         Plus(DigitToks, 2)>>,
       <<Http, Lit({"fb.watch"}), Slash, Plus(CodeToks, 1)>>,
       <<Http, Www, Fb, Slash, Lit({"stories"}), Slash>> >>

FACEBOOK_GENERAL_PATTERN ==
    <<Http, Www, Lit({"facebook.com", "fb.watch"}), Slash, PlusNot(HtmlStopToks, 0)>>

\* skip_patterns, used with re.match; "home" and "share" are prefixes of longer names
FACEBOOK_SKIP_PATTERNS ==
    << <<Http, Www, Fb, Opt({"/"}), EndAnchor>>,
       <<Http, Www, Fb, Slash, Lit({"home", "homer"})>>,
       <<Http, Www, Fb, Slash, Lit({"login"})>>,
       <<Http, Www, Fb, Slash, Lit({"sharer"})>>,
       <<Http, Www, Fb, Slash, Lit({"share", "sharer"})>> >>

is_facebook_content_url(url) ==
    /\ \A i \in 1..Len(FACEBOOK_SKIP_PATTERNS) : ~ReMatch(FACEBOOK_SKIP_PATTERNS[i], url).ok
    /\ \E i \in 1..Len(FACEBOOK_POST_PATTERNS) : ReSearch(FACEBOOK_POST_PATTERNS[i], url).ok

FACEBOOK_AUTHOR_PATTERN == <<Fb, Slash, PlusNot(SlashToks, 1), Slash,
                             Lit({"posts", "videos"}), Slash>>

Facebook_extract_author(post_url) ==
    LET match == ReSearch(FACEBOOK_AUTHOR_PATTERN, post_url)
        username == match.g1
    IN IF match.ok /\ username \notin {<<"permalink", ".php">>, <<"photo", ".php">>,
                                        <<"watch">>, <<"reel">>, <<"stories">>}
       THEN username
       ELSE <<"(see post)">>

RECURSIVE EssentialQuery(_, _)
\* the essential dict of normalize_url joined with "&": key=value for the keys present
EssentialQuery(query, keys) ==
    IF keys = <<>> THEN <<>>
    ELSE LET rest == EssentialQuery(query, Tail(keys))
             this == IF QsHas(query, Head(keys))
                     THEN <<Head(keys), "=">> \o QsFirst(query, Head(keys)) ELSE <<>>
         IN IF this = <<>> THEN rest
            ELSE IF rest = <<>> THEN this
            ELSE this \o <<"&">> \o rest

Facebook_normalize_url(raw) ==
    LET url == Strip(raw)
        parsed == UrlParse(url)
        InNetloc(t) == \E i \in 1..Len(parsed.netloc) : parsed.netloc[i] = t
        query_str == EssentialQuery(parsed.query, <<"story_fbid", "id", "fbid", "v">>)
    IN IF UrlParseRaises(url) THEN Raised
       ELSE IF InNetloc("facebook.com")
       THEN IF /\ \/ Contains(parsed.path, <<"permalink", ".php">>)
                  \/ Contains(parsed.path, <<"photo", ".php">>)
               /\ query_str # <<>>
            THEN <<"https://", "www.", "facebook.com">> \o parsed.path \o <<"?">>
                    \o query_str
            ELSE <<"https://", "www.", "facebook.com">> \o parsed.path
       ELSE IF InNetloc("fb.watch") THEN <<"https://", "fb.watch">> \o parsed.path
       ELSE url

-----------------------------------------------------------------------------
(* The detectors as one interface (BasePlatform)                            *)

Platforms == <<"bluesky", "twitter", "tiktok", "instagram", "facebook">>
PlatformSet == {Platforms[i] : i \in 1..Len(Platforms)}

normalize_url(p, url, net) ==
    CASE p = "bluesky" -> Bluesky_normalize_url(url)
      [] p = "twitter" -> Twitter_normalize_url(url)
      [] p = "tiktok" -> TikTok_normalize_url(url, net)
      [] p = "instagram" -> Instagram_normalize_url(url)
      [] p = "facebook" -> Facebook_normalize_url(url)

extract_author(p, url, net) ==
    CASE p = "bluesky" -> Bluesky_extract_author(url, net)
      [] p = "twitter" -> Twitter_extract_author(url)
      [] p = "tiktok" -> TikTok_extract_author(url)
      [] p = "instagram" -> Instagram_extract_author(url)
      [] p = "facebook" -> Facebook_extract_author(url)

-----------------------------------------------------------------------------
(* HTML documents.  A document is a sequence of top-level blocks; a block  *)
(* is [tag, cls, id, nodes]; a node is [kind, cls, attr, url, links]:      *)
(*   kind "a": an anchor with href url;  kind "text": the text url;        *)
(*   kind "blockquote"/"div": an element of class cls whose attribute attr *)
(*   ("" when it has none) has the value url, holding anchors with the     *)
(*   hrefs links;  kind "iframe": an iframe with src url.                   *)

A(url) == [kind |-> "a", cls |-> "", attr |-> "href", url |-> url, links |-> <<>>]
Text(url) == [kind |-> "text", cls |-> "", attr |-> "", url |-> url, links |-> <<>>]
Quote(cls, attr, url, links) ==
    [kind |-> "blockquote", cls |-> cls, attr |-> attr, url |-> url, links |-> links]
Div(cls, attr, url, links) ==
    [kind |-> "div", cls |-> cls, attr |-> attr, url |-> url, links |-> links]
Iframe(url) == [kind |-> "iframe", cls |-> "", attr |-> "src", url |-> url, links |-> <<>>]
\* an element of the given tag name nested in a block, holding anchors with the hrefs links
Elem(tag, links) == [kind |-> tag, cls |-> "", attr |-> "", url |-> <<>>, links |-> links]
Block(tag, cls, id, nodes) == [tag |-> tag, cls |-> cls, id |-> id, nodes |-> nodes]

RECURSIVE Flatten(_)
\* the concatenation of a sequence of sequences
Flatten(ss) == IF ss = <<>> THEN <<>> ELSE Head(ss) \o Flatten(Tail(ss))

\* the output formatter of str(tag): "&" is written "&amp;"
Escape(s) == Flatten([i \in 1..Len(s) |-> IF s[i] = "&" THEN <<"&", "amp;">> ELSE <<s[i]>>])

SerializeNode(n) ==
    LET anchors == Flatten([i \in 1..Len(n.links) |->
                       <<"<a href=", "\"">> \o Escape(n.links[i]) \o <<"\"", ">", "</a>">>])
    IN CASE n.kind = "a" -> <<"<a href=", "\"">> \o Escape(n.url) \o <<"\"", ">", "</a>">>
         [] n.kind = "text" -> Escape(n.url)
         [] n.kind = "iframe" ->
                <<"<iframe src=", "\"">> \o Escape(n.url) \o <<"\"", ">", "</iframe>">>
         [] n.kind = "blockquote" ->
                (IF n.attr = "" THEN <<"<blockquote", ">">>
                 ELSE <<"<blockquote", "\"">> \o Escape(n.url) \o <<"\"", ">">>)
                \o anchors \o <<"</blockquote>">>
         [] n.kind = "div" ->
                (IF n.attr = "" THEN <<"<div", ">">>
                 ELSE <<"<div", "\"">> \o Escape(n.url) \o <<"\"", ">">>)
                \o anchors \o <<"</div>">>
         [] OTHER -> <<"<div", ">">> \o anchors \o <<"</div>">>

\* str(element) of each block of a fragment, joined
Serialize(blocks) ==
    Flatten([i \in 1..Len(blocks) |->
        <<"<div", ">">>
        \o Flatten([j \in 1..Len(blocks[i].nodes) |-> SerializeNode(blocks[i].nodes[j])])
        \o <<"</div>">>])

\* the nodes of a fragment, in document order (BeautifulSoup(html, 'html.parser'))
NodesOf(blocks) == Flatten([i \in 1..Len(blocks) |-> blocks[i].nodes])

\* soup.find_all('a', href=True): the hrefs of all anchors, nested ones included
Hrefs(nodes) ==
    Flatten([i \in 1..Len(nodes) |->
        IF nodes[i].kind = "a" THEN <<nodes[i].url>>
        ELSE IF nodes[i].kind \notin {"text", "iframe"} THEN nodes[i].links
        ELSE <<>>])

Range(s) == {s[i] : i \in 1..Len(s)}

-----------------------------------------------------------------------------
(* platforms/base.py: extract_article_content                               *)

\* a variant that leaves sidebars in
STRIP_TAGS_noaside == {"header", "footer", "nav", "script", "style", "noscript"}

STRIP_TAGS == {"header", "footer", "nav", "aside", "script", "style", "noscript"}

\* content_selectors, in order: <<attribute, value>>
CONTENT_SELECTORS ==
    << <<"class", "article-content">>, <<"class", "article-body">>,
       <<"class", "post-content">>, <<"class", "entry-content">>,
       <<"class", "story-body">>, <<"class", "content-body">>,
       <<"id", "article-body">>, <<"id", "story-body">>, <<"id", "main-content">>,
       <<"class", "c-entry-content">>, <<"class", "article__content">>,
       <<"class", "article__body">> >>

SelectorMatches(sel, b) ==
    /\ b.tag \in {"div", "section"}
    /\ IF sel[1] = "class" THEN b.cls = sel[2] ELSE b.id = sel[2]

RECURSIVE FirstBySelector(_, _)
\* the loop over content_selectors: the first block the first matching selector finds
FirstBySelector(sels, blocks) ==
    IF sels = <<>> THEN <<>>
    ELSE LET found == SelectSeq(blocks, LAMBDA b : SelectorMatches(Head(sels), b)) IN
         IF found # <<>> THEN <<Head(found)>> ELSE FirstBySelector(Tail(sels), blocks)

\* tag.decompose() of every element of STRIP_TAGS, at the top level and nested
Decompose(doc) ==
    LET kept == SelectSeq(doc, LAMBDA b : b.tag \notin STRIP_TAGS) IN
    [i \in 1..Len(kept) |->
        [kept[i] EXCEPT !.nodes = SelectSeq(@, LAMBDA n : n.kind \notin STRIP_TAGS)]]

\* a document with a "head" block is a whole page: its other blocks are the children
\* of its body element; a document without one is a fragment with no body element
extract_article_content(doc) ==
    LET soup == Decompose(doc)
        articles == SelectSeq(soup, LAMBDA b : b.tag = "article")
        main == SelectSeq(soup, LAMBDA b : b.tag = "main")
        content == FirstBySelector(CONTENT_SELECTORS, soup)
        body == SelectSeq(soup, LAMBDA b : b.tag # "head")
    IN IF articles # <<>> THEN articles
       ELSE IF main # <<>> THEN <<Head(main)>>
       ELSE IF content # <<>> THEN content
       ELSE IF body # soup THEN body
       ELSE soup

-----------------------------------------------------------------------------
(* detect_embeds of the five platforms: the set of raw candidate URLs       *)

Twitter_detect_embeds(frag) ==
    LET html == Serialize(frag)
        nodes == NodesOf(frag)
        swept == FindIter(TWITTER_URL_PATTERN, html)
    IN {h \in Range(Hrefs(nodes)) : ReSearch(TWITTER_URL_PATTERN, h).ok}
       \cup UNION {{h \in Range(nodes[i].links) : ReSearch(TWITTER_URL_PATTERN, h).ok} :
                      i \in {j \in 1..Len(nodes) :
                                nodes[j].kind = "blockquote" /\ nodes[j].cls = "twitter-tweet"}}
       \cup {Group0(html, swept[i]) : i \in 1..Len(swept)}

Bluesky_detect_embeds(frag) ==
    LET html == Serialize(frag)
        nodes == NodesOf(frag)
        swept == FindIter(AT_URI_PATTERN, html)
        quotes == {i \in 1..Len(nodes) : /\ nodes[i].kind = "blockquote"
                                         /\ nodes[i].cls = "bluesky-embed"
                                         /\ nodes[i].links # <<>>}
        data == {i \in 1..Len(nodes) : /\ nodes[i].attr = "data-bluesky-uri"
                                       /\ nodes[i].url # <<>>}
    IN {h \in Range(Hrefs(nodes)) :
            /\ Contains(h, <<"bsky.app", "/", "profile", "/">>)
            /\ Contains(h, <<"/", "post", "/">>)
            /\ ReSearch(BSKY_URL_PATTERN, h).ok}
       \cup {at_uri_to_url(Group0(html, swept[i])) : i \in 1..Len(swept)}
       \cup {nodes[i].links[1] : i \in {j \in quotes :
                /\ "bsky.app" \in Range(nodes[j].links[1])
                /\ ReSearch(BSKY_URL_PATTERN, nodes[j].links[1]).ok}}
       \cup {at_uri_to_url(nodes[i].url) : i \in {j \in data :
                /\ Head(nodes[j].url) = "at://"
                /\ Truthy(at_uri_to_url(nodes[j].url))}}
       \cup {nodes[i].url : i \in {j \in data :
                /\ Head(nodes[j].url) # "at://"
                /\ "bsky.app" \in Range(nodes[j].url)}}

TikTok_detect_embeds(frag, net) ==
    LET html == Serialize(frag)
        nodes == NodesOf(frag)
        hrefs == {h \in Range(Hrefs(nodes)) :
                     Range(h) \cap {"tiktok.com", "vm.tiktok.com", "vt.tiktok.com"} # {}}
        full == {h \in hrefs : ReSearch(TIKTOK_URL_PATTERN, h).ok}
        short == {h \in hrefs \ full : ReSearch(TIKTOK_SHORT_PATTERN, h).ok}
        swept == FindIter(TIKTOK_URL_PATTERN, html)
        sweptShort == FindIter(TIKTOK_SHORT_PATTERN, html)
    IN full
       \cup {expand_short_url(h, net) : h \in {x \in short : Truthy(expand_short_url(x, net))}}
       \cup {nodes[i].url : i \in {j \in 1..Len(nodes) :
                /\ nodes[j].kind = "blockquote" /\ nodes[j].cls = "tiktok-embed"
                /\ nodes[j].attr = "cite" /\ nodes[j].url # <<>>
                /\ ReSearch(TIKTOK_URL_PATTERN, nodes[j].url).ok}}
       \cup {Group0(html, swept[i]) : i \in 1..Len(swept)}
       \cup {expand_short_url(Group0(html, sweptShort[i]), net) :
                i \in {j \in 1..Len(sweptShort) :
                          Truthy(expand_short_url(Group0(html, sweptShort[j]), net))}}

Instagram_detect_embeds(frag) ==
    LET html == Serialize(frag)
        nodes == NodesOf(frag)
        swept == FindIter(INSTAGRAM_URL_PATTERN, html)
        media == {i \in 1..Len(nodes) : /\ nodes[i].kind = "blockquote"
                                        /\ nodes[i].cls = "instagram-media"}
    IN {h \in Range(Hrefs(nodes)) : ReSearch(INSTAGRAM_URL_PATTERN, h).ok}
       \cup {nodes[i].url : i \in {j \in media :
                /\ nodes[j].attr = "data-instgrm-permalink" /\ nodes[j].url # <<>>
                /\ ReSearch(INSTAGRAM_URL_PATTERN, nodes[j].url).ok}}
       \cup UNION {{h \in Range(nodes[i].links) : ReSearch(INSTAGRAM_URL_PATTERN, h).ok} :
                      i \in media}
       \cup {Group0(html, swept[i]) : i \in 1..Len(swept)}

\* the href query parameter of a plugin iframe's src, unquoted once more
IframeHref(src) == Unquote(QsFirst(UrlParse(src).query, "href"))

Facebook_detect_embeds(frag) ==
    LET html == Serialize(frag)
        nodes == NodesOf(frag)
        swept == FindIter(FACEBOOK_GENERAL_PATTERN, html)
    IN {h \in Range(Hrefs(nodes)) : is_facebook_content_url(h)}
       \cup {nodes[i].url : i \in {j \in 1..Len(nodes) :
                /\ nodes[j].kind \in {"div", "blockquote"}
                /\ nodes[j].cls \in {"fb-post", "fb-video", "fb-reel"}
                /\ nodes[j].attr = "data-href" /\ nodes[j].url # <<>>
                /\ is_facebook_content_url(nodes[j].url)}}
       \cup {IframeHref(nodes[i].url) : i \in {j \in 1..Len(nodes) :
                /\ nodes[j].kind = "iframe"
                /\ Contains(nodes[j].url, <<"facebook.com", "/", "plugins", "/">>)
                /\ QsHas(UrlParse(nodes[j].url).query, "href")
                /\ is_facebook_content_url(IframeHref(nodes[j].url))}}
       \cup {Group0(html, swept[i]) : i \in {j \in 1..Len(swept) :
                is_facebook_content_url(Group0(html, swept[j]))}}

\* detect_embeds raises: the Facebook detector calls urlparse on the src of every
\* plugin iframe, outside any try block
detect_embeds_raises(p, frag, net) ==
    /\ p = "facebook"
    /\ \E i \in 1..Len(NodesOf(frag)) :
          /\ NodesOf(frag)[i].kind = "iframe"
          /\ Contains(NodesOf(frag)[i].url, <<"facebook.com", "/", "plugins", "/">>)
          /\ UrlParseRaises(NodesOf(frag)[i].url)

detect_embeds(p, frag, net) ==
    CASE p = "bluesky" -> Bluesky_detect_embeds(frag)
      [] p = "twitter" -> Twitter_detect_embeds(frag)
      [] p = "tiktok" -> TikTok_detect_embeds(frag, net)
      [] p = "instagram" -> Instagram_detect_embeds(frag)
      [] p = "facebook" -> Facebook_detect_embeds(frag)

-----------------------------------------------------------------------------
(* platforms/base.py: EmbedPost, create_embed, process_article              *)

\* create_embed raises: urlparse(article_url) or normalize_url(post_url) does
create_embed_raises(p, post_url, article_url, net) ==
    UrlParseRaises(article_url) \/ normalize_url(p, post_url, net) = Raised

create_embed(p, post_url, article_url, net) ==
    [post_url |-> normalize_url(p, post_url, net),
     author_handle |-> extract_author(p, post_url, net),
     platform |-> p,
     article_url |-> article_url]

\* EmbedPost.to_sheet_row: the columns the model keeps (3, 5, 6, 7 and 11)
to_sheet_row(e) ==
    [platform |-> e.platform, author_handle |-> e.author_handle,
     article_url |-> e.article_url, post_url |-> e.post_url,
     repost_status |-> IF e.platform = "bluesky" THEN "pending" ELSE "n/a"]

RECURSIVE AssembleLoop(_, _, _, _, _, _)
\* the for loop of process_article over post_urls, with seen_urls and embeds: an
\* exception of normalize_url leaves the loop for the outer except clause, which
\* returns the embeds built so far; an exception of create_embed is caught by the
\* inner except clause and the loop goes on
AssembleLoop(p, post_urls, article_url, net, seen_urls, embeds) ==
    IF post_urls = <<>> THEN embeds
    ELSE LET normalized == normalize_url(p, Head(post_urls), net) IN
         IF normalized = Raised THEN embeds
         ELSE IF normalized \in seen_urls
         THEN AssembleLoop(p, Tail(post_urls), article_url, net, seen_urls, embeds)
         ELSE AssembleLoop(p, Tail(post_urls), article_url, net,
                           seen_urls \cup {normalized},
                           IF create_embed_raises(p, normalized, article_url, net)
                           THEN embeds
                           ELSE Append(embeds,
                                       create_embed(p, normalized, article_url, net)))

\* list(urls): the enumerations of a set, one per iteration order
Orderings(S) ==
    {s \in [1..Cardinality(S) -> S] : \A i, j \in 1..Cardinality(S) : s[i] = s[j] => i = j}

\* BasePlatform.process_article, with post_urls enumerated in the given order
process_article(p, article, net, order) ==
    IF detect_embeds_raises(p, extract_article_content(article.html), net) THEN <<>>
    ELSE AssembleLoop(p, order, article.url, net, {}, <<>>)

\* the candidate set process_article iterates over (none when detect_embeds raised)
Candidates(p, article, net) ==
    IF detect_embeds_raises(p, extract_article_content(article.html), net) THEN {}
    ELSE detect_embeds(p, extract_article_content(article.html), net)

\* the outer except clause of process_article ran: detect_embeds raised, or
\* normalize_url raised for the candidate the loop had reached
process_article_caught(p, article, net) ==
    \/ detect_embeds_raises(p, extract_article_content(article.html), net)
    \/ \E u \in Candidates(p, article, net) : normalize_url(p, u, net) = Raised

-----------------------------------------------------------------------------
(* Inputs: URLs                                                             *)

TwCanon == <<"https://", "x.com", "/", "bob", "/", "status", "/", "999">>
TwRaw == <<"https://", "twitter.com", "/", "bob", "/", "status", "/", "999", "?", "s", "=", "20">>
TwOther == <<"https://", "x.com", "/", "alice", "/", "status", "/", "123">>
BskyAlice == <<"https://", "bsky.app", "/", "profile", "/", "alice.bsky.social", "/", "post",
               "/", "xyz">>
BskyDid == <<"https://", "bsky.app", "/", "profile", "/", "did:plc:", "abc123", "/", "post",
             "/", "xyz">>
AtDid == <<"at://", "did:plc:", "abc123", "/", "app.bsky.feed.post", "/", "xyz">>
BskyPlain == <<"https://", "bsky.app", "/", "profile", "/", "alice", "/", "post", "/", "123">>
TtFull == <<"https://", "www.", "tiktok.com", "/", "@", "bob", "/", "video", "/", "77">>
TtShort == <<"https://", "vm.tiktok.com", "/", "ZM1">>
IgPost == <<"https://", "www.", "instagram.com", "/", "p", "/", "abc">>
FbPost == <<"https://", "www.", "facebook.com", "/", "bob", "/", "posts", "/", "1">>
FbPermalink == <<"https://", "www.", "facebook.com", "/", "permalink", ".php", "?",
                 "story_fbid", "=", "1", "&", "id", "=", "2">>

FbHome == <<"https://", "www.", "facebook.com">>

\* a raw URL as pages write it: bare, in whitespace, with a query string, with a
\* fragment, with a query string after a blank, with a trailing slash
Decorations(u) ==
    {u, <<" ">> \o u \o <<" ">>, u \o <<"?", "s", "=", "20">>, u \o <<"#", "x">>,
     u \o <<" ", "?", "ref">>, u \o <<"/">>}

\* [p, url, seg]: a URL of platform p's grammar and the profile segment it carries
\* (<<>> when its shape has none)
UrlBases ==
    {[p |-> "twitter", url |-> TwCanon, seg |-> <<"bob">>],
     [p |-> "twitter", url |-> <<"http://", "Twitter.com", "/", "bob", "/", "Status", "/", "999">>,
      seg |-> <<"bob">>],
     [p |-> "twitter", url |-> TwCanon \o <<"/", "photo", "/", "1">>, seg |-> <<"bob">>],
     [p |-> "bluesky", url |-> BskyAlice, seg |-> <<"alice.bsky.social">>],
     [p |-> "bluesky", url |-> BskyDid, seg |-> <<"did:plc:", "abc123">>],
     [p |-> "bluesky",
      url |-> <<"https://", "bsky.app", "/", "profile", "/", "al", " ", "?", "x", "/", "post",
                "/", "1">>,
      seg |-> <<"al", " ", "?", "x">>],
     [p |-> "tiktok", url |-> TtFull, seg |-> <<"bob">>],
     [p |-> "tiktok", url |-> <<"http://", "tiktok.com", "/", "@", "bob", "/", "video", "/", "77">>,
      seg |-> <<"bob">>],
     [p |-> "tiktok", url |-> TtShort, seg |-> <<>>],
     [p |-> "instagram", url |-> IgPost, seg |-> <<>>],
     [p |-> "instagram", url |-> <<"http://", "instagram.com", "/", "reels", "/", "a_b-c">>,
      seg |-> <<>>],
     [p |-> "instagram", url |-> <<"https://", "instagram.com", "/", "P", "/", "abc">>,
      seg |-> <<>>],
     [p |-> "facebook", url |-> FbPost, seg |-> <<"bob">>],
     [p |-> "facebook", url |-> <<"http://", "facebook.com", "/", "bob", "/", "videos", "/", "5">>,
      seg |-> <<"bob">>],
     [p |-> "facebook", url |-> FbPermalink, seg |-> <<>>],
     [p |-> "facebook", url |-> FbPermalink \o <<"&", "ref", "=", "x">>, seg |-> <<>>],
     [p |-> "facebook",
      url |-> <<"https://", "www.", "facebook.com", "/", "permalink", ".php", "?", "story_fbid",
                "=", "1", "%23", "x">>,
      seg |-> <<>>],
     [p |-> "facebook",
      url |-> <<"https://", "www.", "facebook.com", "/", "photo", ".php", "?", "fbid", "=", "77">>,
      seg |-> <<>>],
     [p |-> "facebook",
      url |-> <<"https://", "www.", "facebook.com", "/", "photo", "?", "fbid", "=", "77">>,
      seg |-> <<>>],
     [p |-> "facebook",
      url |-> <<"https://", "www.", "facebook.com", "/", "watch", "/", "?", "v", "=", "5">>,
      seg |-> <<>>],
     [p |-> "facebook", url |-> <<"https://", "www.", "facebook.com", "/", "reel", "/", "5">>,
      seg |-> <<>>],
     [p |-> "facebook",
      url |-> <<"https://", "www.", "facebook.com", "/", "watch", "/", "videos", "/", "5">>,
      seg |-> <<>>],
     [p |-> "facebook", url |-> <<"https://", "fb.watch", "/", "abc">>, seg |-> <<>>]}

\* the network answers that matter to platform p (the others never ask)
NetDefault == [expand |-> <<"raise">>, plc |-> "raise", aka |-> <<>>]
NetsFor(p) ==
    CASE p = "tiktok" -> {n \in Nets : n.plc = "raise" /\ n.aka = <<>>}
      [] p = "bluesky" -> {n \in Nets : n.expand = <<"raise">>}
      [] OTHER -> {NetDefault}

\* a URL that platform p's own content patterns match
Accepted(p, url) ==
    CASE p = "twitter" -> ReSearch(TWITTER_URL_PATTERN, url).ok
      [] p = "bluesky" -> ReSearch(BSKY_URL_PATTERN, url).ok
      [] p = "tiktok" -> ReSearch(TIKTOK_URL_PATTERN, url).ok
                         \/ ReSearch(TIKTOK_SHORT_PATTERN, url).ok
      [] p = "instagram" -> ReSearch(INSTAGRAM_URL_PATTERN, url).ok
      [] p = "facebook" -> is_facebook_content_url(Strip(url))

-----------------------------------------------------------------------------
(* SpecNorm: normalize_url and extract_author applied to raw URLs           *)

WriterIds == {1, 2}

\* the variables a specification does not use
PipelineOff ==
    /\ log = <<>> /\ header = "good"
    /\ wpc = [w \in WriterIds |-> "off"]
    /\ runs = [w \in WriterIds |-> 0]
    /\ entries = [w \in WriterIds |-> <<>>]
    /\ all_embeds = [w \in WriterIds |-> <<>>]
    /\ existing = [w \in WriterIds |-> {}]
    /\ new_embeds = [w \in WriterIds |-> <<>>]
    /\ ret = [w \in WriterIds |-> <<>>]
    /\ io = [w \in WriterIds |-> <<>>]
    /\ rp = [w \in WriterIds |-> <<>>]
AsmOff == asm = [phase |-> "off"]
NrmOff == nrm = [phase |-> "off"]
pipeVars == <<log, header, wpc, runs, entries, all_embeds, existing, new_embeds, ret, io,
              rp>>

\* Facebook URLs as detect_embeds hands them to _is_facebook_content_url: the
\* non-content paths, content URLs under them, user names that begin with one of
\* them, and the content URLs of UrlBases
FacebookUrls ==
    {FbHome \o t : t \in {<<>>, <<"/">>, <<"/", "home">>, <<"/", "home", ".php">>,
                          <<"/", "login">>, <<"/", "login", "/", "?", "next", "=", "x">>,
                          <<"/", "sharer", "/", "sharer", ".php", "?", "u", "=", "x">>,
                          <<"/", "share", "/", "p", "/", "abc">>,
                          <<"/", "share", "/", "posts", "/", "1">>,
                          <<"/", "login", "/", "videos", "/", "5">>,
                          <<"/", "homer", "/", "posts", "/", "1">>,
                          <<"/", "sharer", "/", "posts", "/", "1">>,
                          <<"/", "bob">>}}
    \cup {b.url : b \in {x \in UrlBases : x.p = "facebook"}}

\* the post identifiers of the pairs
PostIds == {"5", "77", "123"}

\* [p, url]: the URL of the post with identifier id, for each shape of URL the
\* content patterns of a detector accept
PostUrlShapes(id) ==
    {[p |-> "twitter", url |-> <<"https://", "x.com", "/", "bob", "/", "status", "/", id>>],
     [p |-> "bluesky",
      url |-> <<"https://", "bsky.app", "/", "profile", "/", "alice", "/", "post", "/", id>>],
     [p |-> "tiktok",
      url |-> <<"https://", "www.", "tiktok.com", "/", "@", "bob", "/", "video", "/", id>>],
     [p |-> "instagram", url |-> <<"https://", "www.", "instagram.com", "/", "p", "/", id>>],
     [p |-> "facebook", url |-> FbHome \o <<"/", "bob", "/", "posts", "/", id>>],
     [p |-> "facebook", url |-> FbHome \o <<"/", "bob", "/", "videos", "/", id>>],
     [p |-> "facebook", url |-> FbHome \o <<"/", "reel", "/", id>>],
     [p |-> "facebook",
      url |-> FbHome \o <<"/", "permalink", ".php", "?", "story_fbid", "=", id>>],
     [p |-> "facebook", url |-> FbHome \o <<"/", "photo", ".php", "?", "fbid", "=", id>>],
     [p |-> "facebook", url |-> FbHome \o <<"/", "photo", "?", "fbid", "=", id>>],
     [p |-> "facebook", url |-> FbHome \o <<"/", "watch", "/", "?", "v", "=", id>>],
     [p |-> "facebook", url |-> FbHome \o <<"/", "watch", "?", "v", "=", id>>]}

NormInit ==
    /\ PipelineOff /\ AsmOff
    /\ \/ \E b \in UrlBases : \E u \in Decorations(b.url) : \E n \in NetsFor(b.p) :
             nrm = [phase |-> "raw", p |-> b.p, url |-> u, seg |-> b.seg, net |-> n]
       \/ \E u \in FacebookUrls : nrm = [phase |-> "url", p |-> "facebook", url |-> u]
       \/ \E i, j \in PostIds : \E a \in PostUrlShapes(i) : \E b \in PostUrlShapes(j) :
             /\ a.p = b.p
             /\ nrm = [phase |-> "pair", p |-> a.p, id_a |-> i, id_b |-> j,
                       a |-> a.url, b |-> b.url]

\* out1 = normalize_url(url)
Normalize ==
    /\ nrm.phase = "raw"
    /\ nrm' = [phase |-> "once", p |-> nrm.p, url |-> nrm.url, seg |-> nrm.seg,
               net |-> nrm.net, out1 |-> normalize_url(nrm.p, nrm.url, nrm.net)]
    /\ UNCHANGED <<pipeVars, asm>>

\* out2 = normalize_url(out1), the network answering as before (there is no out1
\* when the first call raised)
NormalizeAgain ==
    /\ nrm.phase = "once" /\ nrm.out1 # Raised
    /\ nrm' = [phase |-> "twice", p |-> nrm.p, url |-> nrm.url, seg |-> nrm.seg,
               net |-> nrm.net, out1 |-> nrm.out1,
               out2 |-> normalize_url(nrm.p, nrm.out1, nrm.net)]
    /\ UNCHANGED <<pipeVars, asm>>

\* author = extract_author(url)
ExtractAuthor ==
    /\ nrm.phase = "raw"
    /\ nrm' = [phase |-> "author", p |-> nrm.p, url |-> nrm.url, seg |-> nrm.seg,
               net |-> nrm.net, author |-> extract_author(nrm.p, nrm.url, nrm.net)]
    /\ UNCHANGED <<pipeVars, asm>>

\* content = self._is_facebook_content_url(url)
Classify ==
    /\ nrm.phase = "url"
    /\ nrm' = [phase |-> "classified", p |-> nrm.p, url |-> nrm.url,
               content |-> is_facebook_content_url(nrm.url)]
    /\ UNCHANGED <<pipeVars, asm>>

\* the normalised URLs of two candidates of one detector, which seen_urls of
\* process_article and the post-URL gate of the log compare
NormalizePair ==
    /\ nrm.phase = "pair"
    /\ nrm' = [phase |-> "paired", p |-> nrm.p, id_a |-> nrm.id_a, id_b |-> nrm.id_b,
               a |-> nrm.a, b |-> nrm.b,
               out_a |-> normalize_url(nrm.p, nrm.a, NetDefault),
               out_b |-> normalize_url(nrm.p, nrm.b, NetDefault)]
    /\ UNCHANGED <<pipeVars, asm>>

NormNext == Normalize \/ NormalizeAgain \/ ExtractAuthor \/ Classify \/ NormalizePair

SpecNorm == NormInit /\ [][NormNext]_vars

-----------------------------------------------------------------------------
(* Properties of normalize_url and extract_author (SpecNorm)                *)

\* C6: for every raw URL that its platform's grammar accepts, normalising the
\* normalised URL gives the normalised URL again.
C6_NormalizeIdempotent ==
    (nrm.phase = "twice" /\ Accepted(nrm.p, nrm.url)) => nrm.out2 = nrm.out1

\* the handles the directory document offers: alsoKnownAs entries at://<handle>
DirectoryHandles(net) ==
    {Tail(net.aka[i]) : i \in {j \in 1..Len(net.aka) : Head(net.aka[j]) = "at://"}} \ {<<>>}

-----------------------------------------------------------------------------
(* Inputs: articles                                                         *)

ArticleUrl1 == <<"https://", "news.example", "/", "a1">>
ArticleUrl2 == <<"https://", "news.example", "/", "a2">>

\* the src of a Facebook plugin iframe embedding FbPost
FbPluginSrc ==
    <<"https://", "www.", "facebook.com", "/", "plugins", "/", "post", ".php", "?", "href", "=",
      "https%3A%2F%2F", "www.", "facebook.com", "%2F", "bob", "%2F", "posts", "%2F", "1">>

\* a Bluesky embed blockquote citing the at:// URI, and a plain-text mention of the post
DocBskyCite ==
    <<Block("article", "", "",
            <<Quote("bluesky-embed", "data-bluesky-uri", AtDid, <<>>), Text(BskyAlice)>>)>>
\* the same, the blockquote holding the link Bluesky's embed code puts in it
DocBskyCiteLink ==
    <<Block("article", "", "",
            <<Quote("bluesky-embed", "data-bluesky-uri", AtDid,
                    <<BskyDid \o <<"?", "ref_src", "=", "embed">> >>),
              Text(BskyAlice)>>)>>
\* the same, the mention being a link
DocBskyCiteAnchor ==
    <<Block("article", "", "",
            <<Quote("bluesky-embed", "data-bluesky-uri", AtDid, <<>>), A(BskyAlice)>>)>>
\* two anchors and one raw-text occurrence of one post
DocBskyTwice ==
    <<Block("div", "article-body", "", <<A(BskyPlain), A(BskyPlain), Text(BskyPlain)>>)>>
\* a profile page, and a redirector link carrying a post URL in its query string
BskyProfile == <<"https://", "bsky.app", "/", "profile", "/", "alice.bsky.social">>
BskyRedirect ==
    <<"https://", "news.example", "/", "r", "?", "u", "=">> \o BskyPlain
\* an element whose data-bluesky-uri attribute holds the profile page
DocBskyDataUri ==
    <<Block("article", "", "", <<Div("", "data-bluesky-uri", BskyProfile, <<>>)>>)>>
\* an anchor to the redirector
DocBskyRedirect == <<Block("article", "", "", <<A(BskyRedirect)>>)>>
DocTwitterVariants ==
    <<Block("main", "", "",
            <<A(TwRaw), Quote("twitter-tweet", "", <<>>, <<TwCanon \o <<"?", "ref_src", "=", "x">> >>),
              Text(<<" ">> \o TwCanon \o <<"#", "x">>)>>)>>
DocTwitterRaw == <<Block("article", "", "", <<A(TwRaw)>>)>>
DocTwitterTwo == <<Block("article", "", "", <<A(TwCanon), A(TwOther)>>)>>
\* tweets in the page header only; the content holds none
DocHeaderOnly ==
    <<Block("header", "", "", <<A(TwCanon)>>), Block("div", "", "story-body", <<Text(<<"x">>)>>),
      Block("footer", "", "", <<A(TwOther)>>)>>
\* no article, main or content container: the whole body is the fragment
DocBody ==
    <<Block("nav", "", "", <<A(TwOther)>>), Block("p", "", "", <<A(TwCanon)>>),
      Block("p", "", "", <<A(IgPost)>>)>>
DocTikTok ==
    <<Block("article", "", "",
            <<Quote("tiktok-embed", "cite", TtFull \o <<"?", "s", "=", "20">>, <<>>),
              A(TtShort), Text(TtFull)>>)>>
DocInstagram ==
    <<Block("section", "entry-content", "",
            <<Quote("instagram-media", "data-instgrm-permalink",
                    IgPost \o <<"/", "?", "utm_source", "=", "ig_embed">>, <<IgPost \o <<"/">> >>),
              A(IgPost)>>)>>
DocFacebookEmbed ==
    <<Block("article", "", "",
            <<Div("fb-post", "data-href", FbPost, <<>>), Iframe(FbPluginSrc)>>)>>
\* a link to a Facebook post with a blank before its query string
DocFacebookBlank ==
    <<Block("article", "", "", <<A(FbPost \o <<" ", "?", "ref">>)>>)>>
\* a link to a Facebook permalink: two query parameters joined by "&"
DocFacebookPermalink ==
    <<Block("article", "", "", <<A(FbPermalink)>>)>>
DocMixed ==
    <<Block("article", "", "", <<A(TwRaw), A(BskyAlice)>>),
      Block("article", "", "", <<A(FbPost), A(IgPost), A(TtFull)>>)>>

\* a link whose host part holds an unclosed "[" before a Bluesky post URL, next to
\* a link to a post
BskyMalformed ==
    <<"https://", "[x", "/", "https://", "bsky.app", "/", "profile", "/", "alice", "/", "post",
      "/", "1">>
DocBskyMalformed == <<Block("article", "", "", <<A(BskyAlice), A(BskyMalformed)>>)>>
\* a plugin iframe whose src has such a host part, next to an embedded post
DocFacebookBadIframe ==
    <<Block("article", "", "",
            <<Div("fb-post", "data-href", FbPost, <<>>),
              Iframe(<<"https://", "[x", "/", "www.", "facebook.com", "/", "plugins", "/",
                       "post", ".php", "?", "href", "=", "x">>)>>)>>
\* a tweet in the article, another in a sidebar nested in the article
DocAsideNested ==
    <<Block("article", "", "", <<A(TwCanon), Elem("aside", <<TwOther>>)>>)>>
\* a whole page without article, main or content container: the head, a page
\* header and two paragraphs of the body
DocPage ==
    <<Block("head", "", "", <<Text(TwOther)>>), Block("header", "", "", <<A(IgPost)>>),
      Block("p", "", "", <<A(TwCanon)>>), Block("p", "", "", <<Text(<<"x">>)>>)>>
\* two content containers, the second one matching the earlier selector
DocTwoContainers ==
    <<Block("div", "", "story-body", <<A(TwOther)>>),
      Block("div", "article-body", "", <<A(TwCanon), Elem("nav", <<TwRaw>>)>>)>>
\* one post of each platform, as plain text only
DocTextOnly ==
    <<Block("article", "", "",
            <<Text(TwCanon), Text(<<" ">>), Text(BskyAlice), Text(<<" ">>), Text(TtFull),
              Text(<<" ">>), Text(IgPost), Text(<<" ">>), Text(FbPost)>>)>>

AsmDocs ==
    {DocBskyCite, DocBskyCiteLink, DocBskyCiteAnchor, DocBskyTwice, DocTwitterVariants,
     DocTwitterRaw, DocTwitterTwo, DocHeaderOnly, DocBody, DocTikTok, DocInstagram,
     DocFacebookEmbed, DocFacebookBlank, DocFacebookPermalink, DocMixed, DocBskyMalformed,
     DocFacebookBadIframe, DocAsideNested, DocPage, DocTwoContainers, DocTextOnly,
     DocBskyDataUri, DocBskyRedirect, <<>>}

\* the article URLs a call is made with: one whose host part holds an unclosed "["
\* for the article with two tweets
ArticleUrlBad == <<"https://", "[x", "/", "a">>
ArticleUrlsFor(d) == IF d = DocTwitterTwo THEN {ArticleUrl1, ArticleUrlBad} ELSE {ArticleUrl1}

-----------------------------------------------------------------------------
(* SpecAssemble: one call of BasePlatform.process_article                   *)

AsmInit ==
    /\ PipelineOff /\ NrmOff
    /\ \E d \in AsmDocs : \E p \in PlatformSet : \E n \in NetsFor(p) :
       \E a \in ArticleUrlsFor(d) :
          asm = [phase |-> "raw", p |-> p, article |-> [url |-> a, html |-> d], net |-> n]

\* embeds = platform.process_article(html, article_url, ...)
Assemble ==
    /\ asm.phase = "raw"
    /\ \E order \in Orderings(Candidates(asm.p, asm.article, asm.net)) :
          asm' = [phase |-> "done", p |-> asm.p, article |-> asm.article, net |-> asm.net,
                  raw |-> Candidates(asm.p, asm.article, asm.net),
                  caught |-> process_article_caught(asm.p, asm.article, asm.net),
                  embeds |-> process_article(asm.p, asm.article, asm.net, order)]
    /\ UNCHANGED <<pipeVars, nrm>>

\* rows = [e.to_sheet_row() for e in embeds]
ToSheetRows ==
    /\ asm.phase = "done"
    /\ asm' = [phase |-> "rows", p |-> asm.p, article |-> asm.article, net |-> asm.net,
               raw |-> asm.raw, caught |-> asm.caught, embeds |-> asm.embeds,
               rows |-> [i \in 1..Len(asm.embeds) |-> to_sheet_row(asm.embeds[i])]]
    /\ UNCHANGED <<pipeVars, nrm>>

AsmNext == Assemble \/ ToSheetRows

SpecAssemble == AsmInit /\ [][AsmNext]_vars

-----------------------------------------------------------------------------
(* Properties of process_article (SpecAssemble)                             *)

\* C7: the list one call of process_article returns holds no two records with the
\* same postURL, whatever the HTML and the detector.
C7_NoIntraCallDuplicates ==
    asm.phase \in {"done", "rows"} =>
        \A i, j \in 1..Len(asm.embeds) :
            asm.embeds[i].post_url = asm.embeds[j].post_url => i = j

\* C9: for the article holding a Bluesky embed blockquote that cites the at:// URI
\* and a plain-text mention of the bsky.app URL of the same post, the two references
\* normalise to the same canonical form and process_article of the Bluesky detector
\* returns exactly one record, of platform bluesky and repost status pending.
C9_BlueskyCiteAndMention ==
    (/\ asm.phase = "rows" /\ asm.p = "bluesky"
     /\ asm.article.html \in {DocBskyCite, DocBskyCiteLink}) =>
        /\ normalize_url("bluesky", at_uri_to_url(AtDid), asm.net)
             = normalize_url("bluesky", BskyAlice, asm.net)
        /\ Len(asm.rows) = 1
        /\ asm.rows[1].platform = "bluesky"
        /\ asm.rows[1].repost_status = "pending"

-----------------------------------------------------------------------------
(* main.py: process_article over the platform list, and the feeds           *)

RECURSIVE ArticleOutcomes(_, _, _)
\* the loop of main.process_article over the platforms from ps on: the lists of
\* records it can extend embeds by, one per choice of enumeration orders
ArticleOutcomes(ps, article, net) ==
    IF ps = <<>> THEN {<<>>}
    ELSE {a \o b : a \in {process_article(Head(ps), article, net, o) :
                               o \in Orderings(Candidates(Head(ps), article, net))},
                   b \in ArticleOutcomes(Tail(ps), article, net)}

\* what session.get(url, timeout) does: raises, or gives a response with a status,
\* a Content-Type header and a body
Response(raises, status, content_type, text) ==
    [raises |-> raises, status |-> status, content_type |-> content_type, text |-> text]

Ok(text) == Response("none", 200, <<"text/html", ";", "charset=utf-8">>, text)

RespTimeout == Response("Timeout", 0, <<>>, <<>>)
RespConnectionError == Response("ConnectionError", 0, <<>>, <<>>)
RespTooManyRedirects == Response("TooManyRedirects", 0, <<>>, <<>>)
RespOtherError == Response("Exception", 0, <<>>, <<>>)
RespNotFound == Response("none", 404, <<"text/html">>, DocTwitterRaw)
RespServerError == Response("none", 503, <<"text/html">>, DocTwitterRaw)
RespJson == Response("none", 200, <<"application/json">>, DocTwitterRaw)
RespImage == Response("none", 200, <<"image/png">>, <<>>)
RespNoContentType == Response("none", 200, <<>>, DocTwitterRaw)
RespFeedXml == Response("none", 200, <<"text/xml">>, DocTwitterRaw)
RespEmptyBody == Response("none", 200, <<"text/html">>, <<>>)

Responses ==
    {Ok(DocTwitterRaw), Ok(DocMixed), RespTimeout, RespConnectionError,
     RespTooManyRedirects, RespOtherError, RespNotFound, RespServerError, RespJson,
     RespImage, RespNoContentType, RespFeedXml, RespEmptyBody}

\* the Optional[str] fetch_html returns: None
Absent == [present |-> FALSE, text |-> <<>>]

\* fetch_html: None when the request raised, when raise_for_status raises (4xx and
\* 5xx), and when the Content-Type holds neither 'text/html' nor 'text/xml';
\* response.text otherwise
fetch_html(response) ==
    IF response.raises # "none" THEN Absent
    ELSE IF response.status \in 400..599 THEN Absent
    ELSE IF \A i \in 1..Len(response.content_type) :
               response.content_type[i] \notin {"text/html", "text/xml"}
         THEN Absent
    ELSE [present |-> TRUE, text |-> response.text]

\* a variant that runs the detectors on another page when the fetch failed
main_process_article_stale(entry, platforms, net) ==
    ArticleOutcomes(platforms, [url |-> entry.url, html |-> DocTwitterTwo], net)

\* main.process_article: html = fetch_html(entry.url); "if not html" returns the
\* empty list; else the loop over the platforms
main_process_article(entry, platforms, net) ==
    IF ~fetch_html(entry.response).present \/ fetch_html(entry.response).text = <<>>
    THEN {<<>>}
    ELSE ArticleOutcomes(platforms,
                         [url |-> entry.url, html |-> fetch_html(entry.response).text],
                         net)

\* an RSS entry, with what the request for its page will give
Entry(url, response) == [url |-> url, response |-> response]

\* what fetch_multiple_feeds can return: the recent entries
Feeds ==
    {<<>>,
     <<Entry(ArticleUrl1, RespTimeout), Entry(ArticleUrl2, Ok(DocTwitterRaw))>>,
     <<Entry(ArticleUrl1, Ok(DocTwitterRaw))>>,
     <<Entry(ArticleUrl1, Ok(DocTwitterTwo)), Entry(ArticleUrl2, Ok(DocTwitterRaw))>>,
     <<Entry(ArticleUrl1, Ok(DocFacebookBlank))>>,
     <<Entry(ArticleUrl1, Ok(DocMixed)), Entry(ArticleUrl2, RespNotFound)>>}

\* the feeds the job is run on when it has a poster
FeedsPosting ==
    {<<>>,
     <<Entry(ArticleUrl1, RespJson), Entry(ArticleUrl2, Ok(DocTwitterRaw))>>,
     <<Entry(ArticleUrl1, Ok(DocMixed)), Entry(ArticleUrl2, RespConnectionError)>>}

\* config['max_articles']
MaxArticlesChoices == {1, 2}

\* a slice that keeps the whole list
Take_whole(s, n) == s

\* entries[:max_articles]
Take(s, n) == SubSeq(s, 1, IF n < Len(s) THEN n ELSE Len(s))

-----------------------------------------------------------------------------
(* sheets_manager.py: the worksheet and write_embeds_batch                  *)

\* a data row holding the canonical tweet URL, logged by an earlier run
RowTwCanon == to_sheet_row(create_embed("twitter", TwCanon, ArticleUrl2, NetDefault))

\* worksheet.col_values(7)[1:] as a set
PostUrls(rows) == {rows[i].post_url : i \in 1..Len(rows)}

\* a variant whose failed read still yields the post URLs of the log
get_existing_post_urls_stale(read_ok, rows) == PostUrls(rows)

\* SheetsManager.get_existing_post_urls: the set of the values of column 7 below
\* the header; when col_values raises, the exception is logged and set() is returned
get_existing_post_urls(read_ok, rows) == IF read_ok THEN PostUrls(rows) ELSE {}

\* a filter that lets every record through
FilterNew_keepall(embeds, existing_urls) == embeds

\* new_embeds = [e for e in embeds if e.post_url not in existing_urls]
FilterNew(embeds, existing_urls) ==
    SelectSeq(embeds, LAMBDA e : e.post_url \notin existing_urls)

\* a result that counts nothing as skipped
FailedBatchResult_nothing(embeds) == <<0, 0>>

\* a variant of the except branch that reports the batch as written
FailedBatchResult_written(embeds) == <<Len(embeds), 0>>

\* if not embeds: return (0, 0)
EmptyBatchResult == <<0, 0>>

\* the pair returned from the except branch of write_embeds_batch
FailedBatchResult(embeds) == <<0, Len(embeds)>>

\* rows = [e.to_sheet_row() for e in new_embeds]
SheetRows(embeds) == [i \in 1..Len(embeds) |-> to_sheet_row(embeds[i])]

\* positions of a writer inside write_embeds_batch
InBatchCall == {"headers", "read", "append"}

\* the record of what one call of write_embeds_batch did; overlapped, dup_batch and
\* read_failed tell whether any call of the writer so far ran while another writer
\* was inside its call, was given two records of one postURL, had its bulk read fail
NoCall == [log0 |-> <<>>, reads |-> 0, appends |-> 0, headers |-> "none", read |-> "none",
           append |-> "none", appended |-> <<>>, overlapped |-> FALSE, dup_batch |-> FALSE,
           read_failed |-> FALSE]

-----------------------------------------------------------------------------
(* sheets_manager.py and main.py: the reposting pass                        *)

\* a pending Bluesky row logged by an earlier run that did no reposting
RowBskyOld == to_sheet_row(create_embed("bluesky", BskyDid, ArticleUrl2, NetDefault))

\* a variant that selects the pending rows of every platform
get_pending_bluesky_posts_anyplatform(rows) ==
    LET all == [i \in 1..Len(rows) |-> [row_number |-> i + 1, row |-> rows[i]]]
        sel == SelectSeq(all, LAMBDA x : x.row.repost_status # "posted")
    IN [i \in 1..Len(sel) |->
           [row_number |-> sel[i].row_number, post_url |-> sel[i].row.post_url,
            author_handle |-> sel[i].row.author_handle,
            article_url |-> sel[i].row.article_url]]

\* get_pending_bluesky_posts, the read having succeeded: the rows below the header
\* whose platform is bluesky and whose status is pending, each with its row number
get_pending_bluesky_posts(rows) ==
    LET all == [i \in 1..Len(rows) |-> [row_number |-> i + 1, row |-> rows[i]]]
        sel == SelectSeq(all, LAMBDA x : /\ x.row.platform = "bluesky"
                                         /\ x.row.repost_status = "pending")
    IN [i \in 1..Len(sel) |->
           [row_number |-> sel[i].row_number, post_url |-> sel[i].row.post_url,
            author_handle |-> sel[i].row.author_handle,
            article_url |-> sel[i].row.article_url]]

\* a variant that marks every attempted row posted
StatusFor_posted(outcome) == "posted"

\* a variant that marks every attempted row failed
StatusFor_failed(outcome) == "failed"

\* the status post_pending_to_bluesky writes back for an attempt: post_quote
\* returned True ("success"), returned False ("failure") or raised ("raise")
StatusFor(outcome) == IF outcome = "success" THEN "posted" ELSE "failed"

\* a variant that writes the status into the post URL column
update_cell_wrongcolumn(rows, row_number, status) ==
    [rows EXCEPT ![row_number - 1].post_url = <<status>>]

\* worksheet.update_cell(row_number, 11, status): row 1 is the header row
update_cell(rows, row_number, status) ==
    [rows EXCEPT ![row_number - 1].repost_status = status]

\* max_posts of post_pending_to_bluesky: run() leaves it at its default
MAX_POSTS == 10

\* the record of the reposting pass of a run: whether the run has a poster
\* (bluesky_posting_enabled), max_posts, whether post_pending_to_bluesky was
\* called, the number of pending rows read, the rows still to attempt, the row
\* numbers attempted, the count of successes, and the last attempt; where the
\* account is followed over the runs (history), quoted is the set of the row numbers
\* for which post_quote has returned success, and requoted tells whether post_quote
\* was called again for one of them
NoPass == [enabled |-> FALSE, max_posts |-> MAX_POSTS, invoked |-> FALSE, found |-> 0,
           pending |-> <<>>, attempted |-> <<>>, posted |-> 0,
           last |-> [row_number |-> 0, outcome |-> "none", wrote |-> FALSE],
           history |-> FALSE, quoted |-> {}, requoted |-> FALSE]

\* the records write_embed is called with
WriteEmbedInputs ==
    {create_embed("twitter", TwCanon, ArticleUrl1, NetDefault),
     create_embed("bluesky", BskyPlain, ArticleUrl1, NetDefault)}

-----------------------------------------------------------------------------
(* Spec: main.run by one writer; Spec2W: by two job instances               *)

\* the number of runs the job instances start, all together
MaxRuns == 2

RECURSIVE SumOver(_, _)
SumOver(f, S) == IF S = {} THEN 0 ELSE LET x == CHOOSE y \in S : TRUE IN f[x] + SumOver(f, S \ {x})
RunsStarted == SumOver(runs, WriterIds)

HasDuplicateUrl(embeds) ==
    \E i, j \in 1..Len(embeds) : i # j /\ embeds[i].post_url = embeds[j].post_url

\* the worksheet and the job instances before the first run
InitSheet ==
    /\ AsmOff /\ NrmOff
    /\ \E h \in {"absent", "bad", "good"} :
       \E l \in {<<>>, <<RowTwCanon>>, <<RowTwCanon, RowBskyOld>>} :
          /\ h = "absent" => l = <<>>
          /\ header = h /\ log = l
    /\ wpc = [w \in WriterIds |-> "idle"]
    /\ runs = [w \in WriterIds |-> 0]
    /\ entries = [w \in WriterIds |-> <<>>]
    /\ all_embeds = [w \in WriterIds |-> <<>>]
    /\ existing = [w \in WriterIds |-> {}]
    /\ new_embeds = [w \in WriterIds |-> <<>>]
    /\ ret = [w \in WriterIds |-> <<>>]
    /\ io = [w \in WriterIds |-> NoCall]

Init ==
    /\ InitSheet
    /\ \E enabled \in BOOLEAN :
          rp = [w \in WriterIds |-> [NoPass EXCEPT !.enabled = (w = 1 /\ enabled)]]

\* a variant that goes on to the article loop with no entries
AfterFetch_goon(feed) == "articles"

\* "if not entries: return": where run() is after fetch_multiple_feeds
AfterFetch(feed) == IF feed = <<>> THEN "idle" ELSE "articles"

\* run(): entries = fetch_multiple_feeds(...); return when there are none;
\* entries = entries[:max_articles]; all_embeds = []
StartRun(w) ==
    /\ wpc[w] = "idle" /\ RunsStarted < MaxRuns
    /\ runs' = [runs EXCEPT ![w] = @ + 1]
    /\ \E feed \in (IF rp[w].enabled THEN FeedsPosting ELSE Feeds) :
       \E max_articles \in MaxArticlesChoices :
          /\ entries' = [entries EXCEPT ![w] = Take(feed, max_articles)]
          /\ wpc' = [wpc EXCEPT ![w] = AfterFetch(feed)]
    /\ all_embeds' = [all_embeds EXCEPT ![w] = <<>>]
    /\ existing' = [existing EXCEPT ![w] = {}]
    /\ new_embeds' = [new_embeds EXCEPT ![w] = <<>>]
    /\ ret' = [ret EXCEPT ![w] = <<>>]
    /\ rp' = [rp EXCEPT ![w] = [NoPass EXCEPT !.enabled = rp[w].enabled,
                                             !.max_posts = rp[w].max_posts,
                                             !.history = rp[w].history,
                                             !.quoted = rp[w].quoted,
                                             !.requoted = rp[w].requoted]]
    /\ UNCHANGED <<log, header, io, asm, nrm>>

\* one iteration of "for entry in entries": all_embeds.extend(process_article(...))
ProcessEntry(w) ==
    /\ wpc[w] = "articles" /\ entries[w] # <<>>
    /\ \E embeds \in main_process_article(Head(entries[w]), Platforms, NetDefault) :
          all_embeds' = [all_embeds EXCEPT ![w] = @ \o embeds]
    /\ entries' = [entries EXCEPT ![w] = Tail(@)]
    /\ UNCHANGED <<log, header, wpc, runs, existing, new_embeds, ret, io, rp, asm, nrm>>

\* after the loop: "if not all_embeds" skips the write step, else write_embeds_batch
\* is entered; without a poster the run is complete after the write step
CallWriteBatch(w) ==
    /\ wpc[w] = "articles" /\ entries[w] = <<>>
    /\ IF all_embeds[w] = <<>>
       THEN /\ wpc' = [wpc EXCEPT ![w] = IF rp[w].enabled THEN "repost" ELSE "idle"]
            /\ io' = io
       ELSE LET others == {v \in WriterIds \ {w} : wpc[v] \in InBatchCall} IN
            /\ wpc' = [wpc EXCEPT ![w] = "headers"]
            /\ io' = [v \in WriterIds |->
                        IF v = w
                        THEN [NoCall EXCEPT !.log0 = log,
                                            !.overlapped = io[w].overlapped \/ others # {},
                                            !.dup_batch = io[w].dup_batch
                                                          \/ HasDuplicateUrl(all_embeds[w]),
                                            !.read_failed = io[w].read_failed]
                        ELSE IF v \in others THEN [io[v] EXCEPT !.overlapped = TRUE]
                        ELSE io[v]]
    /\ UNCHANGED <<log, header, runs, entries, all_embeds, existing, new_embeds, ret, rp, asm, nrm>>

\* worksheet = self.get_worksheet(name); self.ensure_headers(worksheet)
EnsureHeaders(w) ==
    /\ wpc[w] = "headers"
    /\ \E ok \in BOOLEAN :
          IF ok
          THEN /\ header' = "good"
               /\ wpc' = [wpc EXCEPT ![w] = "read"]
               /\ io' = [io EXCEPT ![w].headers = "ok"]
               /\ ret' = ret
          ELSE /\ header' \in (IF header = "absent" THEN {"absent", "bad"} ELSE {header})
               /\ wpc' = [wpc EXCEPT ![w] = "returned"]
               /\ io' = [io EXCEPT ![w].headers = "fail"]
               /\ ret' = [ret EXCEPT ![w] = FailedBatchResult(all_embeds[w])]
    /\ UNCHANGED <<log, runs, entries, all_embeds, existing, new_embeds, rp, asm, nrm>>

\* existing_urls = self.get_existing_post_urls(worksheet), the filter, and the
\* return when every record is a duplicate
GetExistingPostUrls(w) ==
    /\ wpc[w] = "read"
    /\ \E ok \in BOOLEAN :
          LET existing_urls == get_existing_post_urls(ok, log)
              new == FilterNew(all_embeds[w], existing_urls)
              skipped == Len(all_embeds[w]) - Len(new)
          IN /\ existing' = [existing EXCEPT ![w] = existing_urls]
             /\ new_embeds' = [new_embeds EXCEPT ![w] = new]
             /\ io' = [io EXCEPT ![w].reads = @ + 1,
                                 ![w].read = IF ok THEN "ok" ELSE "fail",
                                 ![w].read_failed = @ \/ ~ok]
             /\ IF new = <<>>
                THEN /\ ret' = [ret EXCEPT ![w] = <<0, skipped>>]
                     /\ wpc' = [wpc EXCEPT ![w] = "returned"]
                ELSE /\ ret' = ret
                     /\ wpc' = [wpc EXCEPT ![w] = "append"]
    /\ UNCHANGED <<log, header, runs, entries, all_embeds, rp, asm, nrm>>

\* worksheet.append_rows(rows) and the return of (len(new_embeds), skipped), or the
\* except branch
AppendRows(w) ==
    /\ wpc[w] = "append"
    /\ \E ok \in BOOLEAN :
          IF ok
          THEN /\ log' = log \o SheetRows(new_embeds[w])
               /\ ret' = [ret EXCEPT ![w] = <<Len(new_embeds[w]),
                                              Len(all_embeds[w]) - Len(new_embeds[w])>>]
               /\ io' = [io EXCEPT ![w].appends = @ + 1, ![w].append = "ok",
                                   ![w].appended = SheetRows(new_embeds[w])]
          ELSE /\ log' = log
               /\ ret' = [ret EXCEPT ![w] = FailedBatchResult(all_embeds[w])]
               /\ io' = [io EXCEPT ![w].appends = @ + 1, ![w].append = "fail"]
    /\ wpc' = [wpc EXCEPT ![w] = "returned"]
    /\ UNCHANGED <<header, runs, entries, all_embeds, existing, new_embeds, rp, asm, nrm>>

\* a variant in which the run ends after the write step
EndRun_stop(w) ==
    /\ wpc[w] = "returned"
    /\ wpc' = [wpc EXCEPT ![w] = "idle"]
    /\ UNCHANGED <<log, header, runs, entries, all_embeds, existing, new_embeds, ret, io,
                   rp, asm, nrm>>

\* written, skipped = sheets.write_embeds_batch(all_embeds): the run goes on to
\* "if poster:", and is complete when there is none
EndRun(w) ==
    /\ wpc[w] = "returned"
    /\ wpc' = [wpc EXCEPT ![w] = IF rp[w].enabled THEN "repost" ELSE "idle"]
    /\ UNCHANGED <<log, header, runs, entries, all_embeds, existing, new_embeds, ret, io,
                   rp, asm, nrm>>

\* post_pending_to_bluesky: pending = sheets.get_pending_bluesky_posts(...), which
\* opens the worksheet (creating it with its header row when there is none) and
\* returns [] when anything raises; "if not pending: return 0"
GetPendingBlueskyPosts(w) ==
    /\ wpc[w] = "repost"
    /\ \E ok \in BOOLEAN :
          LET found == IF ok THEN get_pending_bluesky_posts(log) ELSE <<>>
              pending == Take(found, rp[w].max_posts)
          IN /\ header' \in (IF header # "absent" THEN {header}
                              ELSE IF ok THEN {"good"} ELSE {"absent", "bad"})
             /\ rp' = [rp EXCEPT ![w].invoked = TRUE, ![w].found = Len(found),
                                 ![w].pending = pending]
             /\ wpc' = [wpc EXCEPT ![w] = IF pending = <<>> THEN "idle" ELSE "posting"]
    /\ UNCHANGED <<log, runs, entries, all_embeds, existing, new_embeds, ret, io, asm, nrm>>

\* one iteration of "for post_info in pending[:max_posts]": poster.post_quote returns
\* True or False or raises, and update_repost_status writes the status to column 11
\* of the row read, or fails and logs; after the last iteration the run is complete
PostQuote(w) ==
    /\ wpc[w] = "posting" /\ rp[w].pending # <<>>
    /\ \E outcome \in {"success", "failure", "raise"} : \E wrote \in BOOLEAN :
          LET post_info == Head(rp[w].pending) IN
          /\ log' = IF wrote
                    THEN update_cell(log, post_info.row_number, StatusFor(outcome))
                    ELSE log
          /\ rp' = [rp EXCEPT ![w].pending = Tail(@),
                              ![w].attempted = Append(@, post_info.row_number),
                              ![w].posted = IF outcome = "success" THEN @ + 1 ELSE @,
                              ![w].last = [row_number |-> post_info.row_number,
                                           outcome |-> outcome, wrote |-> wrote],
                              ![w].quoted = IF rp[w].history /\ outcome = "success"
                                            THEN @ \cup {post_info.row_number}
                                            ELSE @,
                              ![w].requoted = @ \/ post_info.row_number \in rp[w].quoted]
    /\ wpc' = [wpc EXCEPT ![w] = IF Tail(rp[w].pending) = <<>> THEN "idle" ELSE "posting"]
    /\ UNCHANGED <<header, runs, entries, all_embeds, existing, new_embeds, ret, io, asm, nrm>>

\* SheetsManager.write_embed, called on its own: worksheet and header check, the
\* duplicate check (is_duplicate returns False when its read raises), append_row;
\* True is returned when the row was appended
WriteEmbed(w) ==
    /\ wpc[w] = "idle" /\ RunsStarted < MaxRuns
    /\ runs' = [runs EXCEPT ![w] = @ + 1]
    /\ \E embed \in WriteEmbedInputs : \E headers_ok, read_ok, append_ok \in BOOLEAN :
          LET duplicate == read_ok /\ embed.post_url \in PostUrls(log)
              written == headers_ok /\ ~duplicate /\ append_ok
          IN /\ header' \in (IF headers_ok THEN {"good"}
                              ELSE IF header = "absent" THEN {"absent", "bad"}
                              ELSE {header})
             /\ log' = IF written THEN Append(log, to_sheet_row(embed)) ELSE log
             /\ ret' = [ret EXCEPT ![w] = <<written>>]
    /\ UNCHANGED <<wpc, entries, all_embeds, existing, new_embeds, io, rp, asm, nrm>>

\* the steps of run() up to the end of the write step
WriteStep(w) ==
    \/ StartRun(w) \/ ProcessEntry(w) \/ CallWriteBatch(w) \/ EnsureHeaders(w)
    \/ GetExistingPostUrls(w) \/ AppendRows(w) \/ EndRun(w)

\* the steps of the reposting pass
RepostStep(w) == GetPendingBlueskyPosts(w) \/ PostQuote(w)

Step(w) == WriteStep(w) \/ RepostStep(w)

\* one job instance at a time (the scheduling the design expects)
Next == Step(1)

Spec == Init /\ [][Next]_vars

\* the job instance, and single writes through write_embed between its runs
NextApi == Step(1) \/ WriteEmbed(1)

SpecApi == Init /\ [][NextApi]_vars

\* the steps of a run after its article loop
AfterLoopStep(w) ==
    \/ CallWriteBatch(w) \/ EnsureHeaders(w) \/ GetExistingPostUrls(w) \/ AppendRows(w)
    \/ EndRun(w) \/ RepostStep(w)

\* the run is inside "for entry in entries" with an entry to process
InArticleLoop(w) == wpc[w] = "articles" /\ entries[w] # <<>>

\* Spec with the job process making progress until run() returns: every external
\* call returns or raises (requests and gspread calls have timeouts), so a step that
\* can be taken is taken, and the article loop, whose iterations can always be
\* taken, does not stay at one entry for ever
SpecLive ==
    /\ Init /\ [][Next]_vars
    /\ WF_vars(AfterLoopStep(1))
    /\ []<>(~InArticleLoop(1))

\* two job instances without a poster, their steps interleaved
Init2W == Init /\ \A w \in WriterIds : ~rp[w].enabled

Next2W == \E w \in WriterIds : WriteStep(w)

Spec2W == Init2W /\ [][Next2W]_vars

-----------------------------------------------------------------------------
(* Properties of the duplicate-suppression gate (Spec, Spec2W)              *)

NoDuplicateRows(rows) ==
    \A i, j \in 1..Len(rows) : rows[i].post_url = rows[j].post_url => i = j

\* the number of rows with post URL u
RowCount(rows, u) == Cardinality({i \in 1..Len(rows) : rows[i].post_url = u})

\* C1: from a log without two rows of one post URL, after any sequence of
\* non-overlapping runs of a single writer no two data rows share a post URL --
\* stated here for the runs in which every bulk read succeeded.
C1_NoDuplicateRows ==
    ~io[1].read_failed => NoDuplicateRows(log)

\* C2: a call on a non-empty batch whose bulk read and bulk append both succeed
\* reads the post-URL column once and appends at most once; the rows appended are
\* the records whose postURL is not in the set read, in batch order; the pair
\* returned counts those records and the records whose postURL was in the set; when
\* every record is in the set no append is issued.
C2_BatchFilter ==
    \A w \in WriterIds :
        (wpc[w] = "returned" /\ io[w].read = "ok" /\ io[w].append # "fail") =>
            LET batch == all_embeds[w]
                fresh == SelectSeq(batch, LAMBDA e : e.post_url \notin existing[w])
                known == SelectSeq(batch, LAMBDA e : e.post_url \in existing[w])
            IN /\ batch # <<>>
               /\ existing[w] = PostUrls(io[w].log0)
               /\ io[w].reads = 1 /\ io[w].appends <= 1
               /\ io[w].appended = SheetRows(fresh)
               /\ log = io[w].log0 \o SheetRows(fresh)
               /\ ret[w] = <<Len(fresh), Len(known)>>
               /\ fresh = <<>> => io[w].appends = 0

\* a batch of one known and one new record, read and appended
C2_Witness ==
    /\ wpc[1] = "returned" /\ io[1].read = "ok" /\ io[1].append = "ok"
    /\ ret[1] = <<1, 1>> /\ Len(log) = 2

\* C3: when the bulk append fails the call returns (0, len(records)) to its caller
\* and the data rows of the log are those of before the call.
C3_AppendFailure ==
    \A w \in WriterIds :
        (wpc[w] = "returned" /\ io[w].append = "fail") =>
            /\ ret[w] = <<0, Len(all_embeds[w])>>
            /\ log = io[w].log0

\* an append that failed for a batch of which one record was a duplicate
C3_Witness ==
    /\ wpc[1] = "returned" /\ io[1].append = "fail"
    /\ Len(all_embeds[1]) = 2 /\ Len(new_embeds[1]) = 1

\* C4: for a sole writer, a call on a batch (of distinct postURLs, none of them
\* more than once in the log) never leaves the log with more than one row of a
\* postURL of the batch, whichever of its external calls fail.
C4_IdempotentUnderFailure ==
    (/\ wpc[1] = "returned"
     /\ ~HasDuplicateUrl(all_embeds[1])
     /\ \A u \in PostUrls(all_embeds[1]) : RowCount(io[1].log0, u) <= 1) =>
        \A u \in PostUrls(all_embeds[1]) : RowCount(log, u) <= 1

\* C5: with the calls of the two writers run one after the other (neither entered
\* while the other writer is inside its own), on batches without repeated postURLs
\* that share a postURL absent from the log before the first call, the log never
\* holds two rows with that postURL.
C5_SequentialNoDuplicates ==
    \A u \in PostUrls(all_embeds[1]) \cap PostUrls(all_embeds[2]) :
        (/\ \A w \in WriterIds :
               io[w].headers # "none" /\ ~io[w].overlapped /\ ~io[w].dup_batch
         /\ \E w \in WriterIds : RowCount(io[w].log0, u) = 0) =>
            RowCount(log, u) <= 1

\* C8: with the log holding https://x.com/bob/status/999, the record of an article
\* that references https://twitter.com/bob/status/999?s=20 is counted as skipped
\* and not appended.
C8_FormatVariantSkipped ==
    (/\ wpc[1] = "returned"
     /\ Len(all_embeds[1]) = 1
     /\ all_embeds[1][1].post_url = normalize_url("twitter", TwRaw, NetDefault)
     /\ TwCanon \in PostUrls(io[1].log0)) =>
        /\ ret[1] = <<0, 1>>
        /\ log = io[1].log0

-----------------------------------------------------------------------------
(* Properties of the detectors and of extract_article_content (SpecAssemble) *)

\* the fragment the detector of the call was given
AsmFragment == extract_article_content(asm.article.html)

\* C11: when the expansion of a TikTok short link fails (the lookup raises or ends
\* at a URL that is not a TikTok video URL), detect_embeds of the TikTok detector
\* does not raise, its output holds neither a short link nor the URL the lookup
\* ended at, and the full video URLs of the fragment (link, embed citation, raw
\* text) are still returned.
C11_ShortLinkExpansionFailure ==
    (/\ asm.phase \in {"done", "rows"} /\ asm.p = "tiktok"
     /\ ~ReSearch(TIKTOK_URL_PATTERN, asm.net.expand).ok) =>
        /\ ~asm.caught
        /\ \A u \in asm.raw :
              /\ ~ReSearch(TIKTOK_SHORT_PATTERN, u).ok
              /\ u # asm.net.expand
              /\ ReSearch(TIKTOK_URL_PATTERN, u).ok
        /\ \A h \in Range(Hrefs(NodesOf(AsmFragment))) :
              (ReSearch(TIKTOK_URL_PATTERN, h).ok /\ "tiktok.com" \in Range(h)) => h \in asm.raw
        /\ \A i \in 1..Len(NodesOf(AsmFragment)) :
              LET n == NodesOf(AsmFragment)[i] IN
              (/\ n.kind = "blockquote" /\ n.cls = "tiktok-embed" /\ n.attr = "cite"
               /\ ReSearch(TIKTOK_URL_PATTERN, n.url).ok) => n.url \in asm.raw
        /\ \A i \in 1..Len(FindIter(TIKTOK_URL_PATTERN, Serialize(AsmFragment))) :
              Group0(Serialize(AsmFragment),
                     FindIter(TIKTOK_URL_PATTERN, Serialize(AsmFragment))[i]) \in asm.raw

\* the article with a TikTok embed, a short link and a plain-text video URL, the
\* lookup of the short link raising: the two full URLs are the candidates
C11_Witness ==
    /\ asm.phase = "done" /\ asm.p = "tiktok" /\ asm.article.html = DocTikTok
    /\ asm.net.expand = <<"raise">>
    /\ asm.raw = {TtFull \o <<"?", "s", "=", "20">>, TtFull}

\* C12: a failure of a detector on an article is isolated: when detect_embeds or
\* any step of process_article raises, the detector contributes zero embeds for the
\* article (and no exception leaves the call).
C12_DetectorFailureIsolated ==
    (asm.phase \in {"done", "rows"} /\ asm.caught) => asm.embeds = <<>>

\* C14: extract_article_content never raises and returns the document without its
\* header, footer, nav, aside, script, style and noscript elements, cut down to the
\* first available of: all article elements, the main element, the first container
\* the selector list finds, the body, the whole stripped document; no URL that
\* occurs (in any form normalising to the same URL) only inside a stripped
\* element is a candidate or a record of process_article.
C14_ExtractArticleContent ==
    asm.phase \in {"done", "rows"} =>
        LET stripped == {"header", "footer", "nav", "aside", "script", "style", "noscript"}
            doc == asm.article.html
            frag == AsmFragment
            top == SelectSeq(doc, LAMBDA b : b.tag \notin stripped)
            kept == [i \in 1..Len(top) |->
                        [top[i] EXCEPT !.nodes = SelectSeq(@, LAMBDA n : n.kind \notin stripped)]]
            Urls(nodes) == {nodes[i].url : i \in 1..Len(nodes)}
                           \cup UNION {Range(nodes[i].links) : i \in 1..Len(nodes)}
            inKept == Urls(NodesOf(kept))
            inStripped ==
                Urls(NodesOf(SelectSeq(doc, LAMBDA b : b.tag \in stripped)))
                \cup UNION {Range(n.links) : n \in {m \in Range(NodesOf(top)) : m.kind \in stripped}}
            HasTag(t) == \E i \in 1..Len(kept) : kept[i].tag = t
            HasContainer == \E k \in 1..Len(CONTENT_SELECTORS), i \in 1..Len(kept) :
                               SelectorMatches(CONTENT_SELECTORS[k], kept[i])
        IN /\ \A i \in 1..Len(frag) :
                /\ frag[i].tag \notin stripped
                /\ \A j \in 1..Len(frag[i].nodes) : frag[i].nodes[j].kind \notin stripped
           /\ IF HasTag("article") THEN frag = SelectSeq(kept, LAMBDA b : b.tag = "article")
              ELSE IF HasTag("main")
              THEN \E i \in 1..Len(kept) :
                      /\ frag = <<kept[i]>> /\ kept[i].tag = "main"
                      /\ \A j \in 1..(i - 1) : kept[j].tag # "main"
              ELSE IF HasContainer
              THEN \E k \in 1..Len(CONTENT_SELECTORS), i \in 1..Len(kept) :
                      /\ frag = <<kept[i]>>
                      /\ SelectorMatches(CONTENT_SELECTORS[k], kept[i])
                      /\ \A j \in 1..(i - 1) : ~SelectorMatches(CONTENT_SELECTORS[k], kept[j])
                      /\ \A k2 \in 1..(k - 1), j \in 1..Len(kept) :
                            ~SelectorMatches(CONTENT_SELECTORS[k2], kept[j])
              ELSE IF HasTag("head") THEN frag = SelectSeq(kept, LAMBDA b : b.tag # "head")
              ELSE frag = kept
           /\ \A u \in inStripped :
                (\A v \in inKept : normalize_url(asm.p, v, asm.net)
                                       # normalize_url(asm.p, u, asm.net)) =>
                    /\ u \notin asm.raw
                    /\ \A i \in 1..Len(asm.embeds) :
                          asm.embeds[i].post_url # normalize_url(asm.p, u, asm.net)

\* the article with one tweet and a sidebar holding another: one record, the first
C14_Witness ==
    /\ asm.phase = "done" /\ asm.p = "twitter" /\ asm.article.html = DocAsideNested
    /\ Len(asm.embeds) = 1 /\ asm.embeds[1].post_url = TwCanon

\* the post each platform has in the articles DocMixed (as links) and DocTextOnly
\* (as plain text)
PostOf(p) ==
    CASE p = "twitter" -> IF asm.article.html = DocMixed THEN TwRaw ELSE TwCanon
      [] p = "bluesky" -> BskyAlice
      [] p = "tiktok" -> TtFull
      [] p = "instagram" -> IgPost
      [] p = "facebook" -> FbPost

\* C15: each detector returns a post URL of its grammar when it occurs as an anchor
\* href and when it occurs only as raw text of the fragment, outside any anchor or
\* embed markup; for Bluesky this includes a plain-text bsky.app URL.
C15_ThreeSurfaces ==
    (asm.phase \in {"done", "rows"} /\ asm.article.html \in {DocMixed, DocTextOnly}) =>
        /\ PostOf(asm.p) \in asm.raw
        /\ \E i \in 1..Len(asm.embeds) :
              asm.embeds[i].post_url = normalize_url(asm.p, PostOf(asm.p), asm.net)

-----------------------------------------------------------------------------
(* Properties of FacebookPlatform.normalize_url (SpecNorm)                   *)

\* the name=value pieces of a query string as written, nothing decoded
QueryPairs(query) ==
    LET pieces == SplitOn(query, "&")
        eq(p) == IndexOfFrom({"="}, p, 1)
    IN {<<SubSeq(pieces[i], 1, eq(pieces[i]) - 1),
          SubSeq(pieces[i], eq(pieces[i]) + 1, Len(pieces[i]))>> :
            i \in {j \in 1..Len(pieces) : /\ eq(pieces[j]) < Len(pieces[j])
                                           /\ eq(pieces[j]) > 1}}

\* C16: for every Facebook permalink URL (permalink.php?...) and photo URL
\* (photo.php?... and photo?...), the normalised URL has no fragment and keeps
\* exactly those of story_fbid, id, fbid, v that were present, with their original
\* values, and no other query key.
C16_FacebookIdentityKeys ==
    (/\ nrm.phase \in {"once", "twice"} /\ nrm.p = "facebook"
     /\ \/ ReSearch(FACEBOOK_POST_PATTERNS[2], nrm.url).ok
        \/ ReSearch(FACEBOOK_POST_PATTERNS[3], nrm.url).ok) =>
        /\ nrm.out1 # Raised
        /\ UrlParse(nrm.out1).fragment = <<>>
        /\ QueryPairs(UrlParse(nrm.out1).query)
             = {q \in QueryPairs(UrlParse(Strip(nrm.url)).query) :
                   q[1] \in {<<"story_fbid">>, <<"id">>, <<"fbid">>, <<"v">>}}

-----------------------------------------------------------------------------
(* Properties of the run and of the reposting pass (Spec, SpecLive, SpecApi) *)

\* C13: every row appended to the log has repost status "pending" if and only if
\* its platform is bluesky, and "n/a" otherwise; a row whose platform is not
\* bluesky has status "n/a" at all times, reposting passes included.
C13_RepostStatusAtCreation ==
    /\ \A i \in 1..Len(log) :
          IF log[i].platform = "bluesky"
          THEN log[i].repost_status \in {"pending", "posted", "failed"}
          ELSE log[i].repost_status = "n/a"
    /\ \A w \in WriterIds :
          /\ wpc[w] # "off" =>
                \A j \in 1..Len(io[w].appended) :
                    io[w].appended[j].repost_status
                      = IF io[w].appended[j].platform = "bluesky" THEN "pending" ELSE "n/a"
          /\ ret[w] = <<TRUE>> =>
                log[Len(log)].repost_status
                  = IF log[Len(log)].platform = "bluesky" THEN "pending" ELSE "n/a"

\* after a reposting pass, a Bluesky row marked posted next to a Twitter row
C13_Witness ==
    /\ rp[1].invoked /\ wpc[1] = "idle"
    /\ \E i, j \in 1..Len(log) :
          /\ log[i].platform = "twitter" /\ log[i].repost_status = "n/a"
          /\ log[j].platform = "bluesky" /\ log[j].repost_status = "posted"

\* C17: whenever posting is enabled and the run obtained at least one article
\* entry, the reposting step is eventually invoked after the write step -- whether
\* write_embeds_batch succeeded, failed or was not called -- and the run returns.
C17_RepostAfterWrite ==
    (wpc[1] = "articles" /\ rp[1].enabled) ~> (wpc[1] = "idle" /\ rp[1].invoked)

\* a run whose bulk append failed and whose reposting step was invoked
C17_Witness ==
    /\ wpc[1] = "idle" /\ rp[1].enabled /\ rp[1].invoked
    /\ io[1].append = "fail" /\ ret[1] = <<0, Len(all_embeds[1])>>

\* the request for the page failed in one of the ways the fetcher reports as
\* absent: an error status, a content type that is not HTML, a timeout or a
\* network error
FetchFails(response) ==
    \/ response.raises \in {"Timeout", "ConnectionError", "TooManyRedirects"}
    \/ response.raises = "none" /\ response.status \in 400..599
    \/ response.raises = "none"
       /\ (response.content_type = <<>>
           \/ response.content_type[1] \in {"application/json", "image/png"})

\* C18: when the fetch of an article returns nothing (error status, non-HTML
\* content type, timeout or network error), process_article adds no record for it
\* and raises nothing, and the run goes on with the next article, whose records
\* are those of its own page.
C18_FetchAbsent ==
    [][/\ \A r \in Responses : FetchFails(r) => ~fetch_html(r).present
       /\ \A w \in WriterIds :
          (wpc[w] = "articles" /\ entries[w] # <<>> /\ entries'[w] # entries[w]) =>
              LET entry == Head(entries[w])
                  page == [url |-> entry.url, html |-> entry.response.text]
              IN /\ wpc'[w] = "articles" /\ entries'[w] = Tail(entries[w])
                 /\ IF FetchFails(entry.response) \/ entry.response.text = <<>>
                    THEN all_embeds'[w] = all_embeds[w]
                    ELSE \E e \in ArticleOutcomes(Platforms, page, NetDefault) :
                            all_embeds'[w] = all_embeds[w] \o e]_vars

\* the run over a feed whose first article could not be fetched: the batch is the
\* tweet of the second article
C18_Witness ==
    /\ wpc[1] = "returned" /\ Len(all_embeds[1]) = 1
    /\ all_embeds[1][1].article_url = ArticleUrl2
    /\ all_embeds[1][1].post_url = TwCanon

\* C19: no step of the program deletes or reorders data rows or changes a cell of
\* an existing data row other than the repost status: the rows before a step are
\* a prefix of the rows after it, up to repost-status values.
C19_AppendOnly ==
    [][/\ Len(log') >= Len(log)
       /\ \A i \in 1..Len(log) :
             log'[i] = [log[i] EXCEPT !.repost_status = log'[i].repost_status]]_vars

\* a status written back into a log of several rows
C19_Witness ==
    /\ rp[1].last.wrote /\ Len(log) >= 2
    /\ log[rp[1].last.row_number - 1].repost_status \in {"posted", "failed"}

\* C20: the rows post_pending_to_bluesky attempts are rows whose platform is
\* bluesky and whose status was pending when the log was read; for each attempt
\* the status written is "posted" when post_quote returned success and "failed"
\* when it returned failure or raised, it is written to the row read, and no other
\* row changes.
C20_RepostOutcome ==
    [][\A w \in WriterIds :
          /\ (wpc[w] = "repost" /\ wpc'[w] = "posting") =>
                \A k \in 1..Len(rp'[w].pending) :
                    LET post_info == rp'[w].pending[k]
                        row == log[post_info.row_number - 1]
                    IN /\ row.platform = "bluesky" /\ row.repost_status = "pending"
                       /\ row.post_url = post_info.post_url
          /\ (wpc[w] = "posting" /\ rp'[w].attempted # rp[w].attempted) =>
                LET attempt == rp'[w].last
                    at == attempt.row_number - 1
                    status == IF attempt.outcome = "success" THEN "posted" ELSE "failed"
                IN /\ attempt.row_number = Head(rp[w].pending).row_number
                   /\ rp'[w].attempted = Append(rp[w].attempted, attempt.row_number)
                   /\ Len(log') = Len(log)
                   /\ \A i \in 1..Len(log) : i # at => log'[i] = log[i]
                   /\ log'[at] = IF attempt.wrote
                                 THEN [log[at] EXCEPT !.repost_status = status]
                                 ELSE log[at]]_vars

\* an attempt that raised, its row marked failed
C20_Witness ==
    /\ rp[1].last.outcome = "raise" /\ rp[1].last.wrote
    /\ log[rp[1].last.row_number - 1].repost_status = "failed"
    /\ log[rp[1].last.row_number - 1].platform = "bluesky"

-----------------------------------------------------------------------------
(* Order independence, canonical shape, classification (SpecAssemble, SpecNorm) *)

\* the records of a list, as a set keyed by post URL and author handle
RecordSet(embeds) ==
    {<<embeds[i].post_url, embeds[i].author_handle>> : i \in 1..Len(embeds)}

\* C21: the records process_article returns do not depend on the order in which
\* the candidate set is enumerated: every ordering gives the same set of records
\* (post URL and author handle) as the one the call took.
C21_OrderIndependent ==
    asm.phase \in {"done", "rows"} =>
        \A o \in Orderings(asm.raw) :
            RecordSet(process_article(asm.p, asm.article, asm.net, o))
              = RecordSet(asm.embeds)

\* https://bsky.app/profile/{handle-or-did}/post/{id}
CanonicalBskyShape(u) ==
    \E i \in 6..Len(u) :
        /\ SubSeq(u, 1, 5) = <<"https://", "bsky.app", "/", "profile", "/">>
        /\ \A k \in 6..i : u[k] \notin SlashToks
        /\ i + 4 <= Len(u)
        /\ SubSeq(u, i + 1, i + 3) = <<"/", "post", "/">>
        /\ \A k \in (i + 4)..Len(u) : u[k] \in AlnumToks

\* C22: every record the Bluesky detector produces has a post URL of the shape
\* https://bsky.app/profile/{handle-or-did}/post/{id}, whichever surface (anchor,
\* blockquote link, at:// URI, data-bluesky-uri value) its candidate came from.
C22_BlueskyCanonicalShape ==
    (asm.phase \in {"done", "rows"} /\ asm.p = "bluesky") =>
        \A i \in 1..Len(asm.embeds) : CanonicalBskyShape(asm.embeds[i].post_url)

\* the first segment of the path of a URL
FirstSegment(url) ==
    LET path == UrlParse(url).path
        rest == IF path # <<>> /\ Head(path) = "/" THEN Tail(path) ELSE path
    IN SubSeq(rest, 1, IndexOfFrom({"/"}, rest, 1) - 1)

\* the homepage, or a URL whose path is one of home, login, sharer, share
NonContentPath(url) ==
    /\ UrlParse(url).netloc \in {<<"facebook.com">>, <<"www.", "facebook.com">>}
    /\ \/ UrlParse(url).path \in {<<>>, <<"/">>}
       \/ FirstSegment(url) \in {<<"home">>, <<"login">>, <<"sharer">>, <<"share">>}

\* C23: a Facebook URL whose path is one of the non-content paths (home, login,
\* sharer, share, or the bare homepage) is never classified as content, even when
\* a content pattern matches it; a URL that a content pattern matches and whose
\* path is not one of them is classified as content.
C23_SkipListFirst ==
    nrm.phase = "classified" =>
        /\ NonContentPath(nrm.url) => ~nrm.content
        /\ (/\ \E i \in 1..Len(FACEBOOK_POST_PATTERNS) :
                   ReSearch(FACEBOOK_POST_PATTERNS[i], nrm.url).ok
            /\ ~NonContentPath(nrm.url)) => nrm.content

\* ---------------------------------------------------------------------------
\* The pair returned by write_embeds_batch (Spec)
\* ---------------------------------------------------------------------------

\* C24: on every return of write_embeds_batch the two counts are not negative and
\* add up to the length of the batch, and the first is positive only when a bulk
\* append was issued and did not raise; the early return for an empty batch gives
\* (0, 0).
C24_CountsAddUp ==
    /\ EmptyBatchResult[1] + EmptyBatchResult[2] = Len(<<>>)
    /\ EmptyBatchResult[1] = 0 /\ EmptyBatchResult[2] = 0
    /\ \A w \in WriterIds :
          wpc[w] = "returned" =>
              /\ ret[w][1] + ret[w][2] = Len(all_embeds[w])
              /\ ret[w][1] >= 0 /\ ret[w][2] >= 0
              /\ ret[w][1] > 0 => (io[w].appends = 1 /\ io[w].append = "ok")

\* a call that ended in the except branch before any read, on a batch of two
C24_Witness ==
    /\ wpc[1] = "returned" /\ io[1].headers = "fail" /\ io[1].appends = 0
    /\ Len(all_embeds[1]) = 2 /\ ret[1] = <<0, 2>>

\* ---------------------------------------------------------------------------
\* The reposting pass over several runs (SpecHist, Spec)
\* ---------------------------------------------------------------------------

\* the job with a poster, the quotes published on its account followed over the runs
InitHist ==
    /\ InitSheet
    /\ rp = [w \in WriterIds |->
                [NoPass EXCEPT !.enabled = (w = 1), !.history = (w = 1)]]

SpecHist == InitHist /\ [][Next]_vars

\* C25: over any sequence of runs no row is passed to post_quote again once
\* post_quote has returned success for it.
C25_QuotedAtMostOnce ==
    \A w \in WriterIds : ~rp[w].requoted

\* C26: the status of a row of the log changes only from pending to posted or
\* from pending to failed: no step writes pending to a row, no step changes a row
\* whose status is posted or failed, no row is removed, and the step of an attempt
\* for which post_quote returned success does not mark its row failed.
C26_StatusTransitions ==
    [][/\ Len(log') >= Len(log)
       /\ \A i \in 1..Len(log) :
             log'[i].repost_status # log[i].repost_status =>
                 /\ log[i].repost_status = "pending"
                 /\ log'[i].repost_status \in {"posted", "failed"}
       /\ \A w \in WriterIds :
             (/\ wpc[w] = "posting" /\ rp'[w].attempted # rp[w].attempted
              /\ rp'[w].last.outcome = "success") =>
                 log'[rp'[w].last.row_number - 1].repost_status # "failed"]_vars

\* the pass of a second run has marked a row, and a row marked posted by the first
\* run is not among the rows it attempted
C26_Witness ==
    /\ runs[1] = 2 /\ wpc[1] = "idle" /\ rp[1].invoked
    /\ rp[1].last.wrote /\ rp[1].last.outcome = "failure"
    /\ log[rp[1].last.row_number - 1].repost_status = "failed"
    /\ \E i \in 1..Len(log) :
          /\ log[i].repost_status = "posted"
          /\ \A k \in 1..Len(rp[1].attempted) : rp[1].attempted[k] # i + 1

\* ---------------------------------------------------------------------------
\* One call of post_pending_to_bluesky (SpecPost)
\* ---------------------------------------------------------------------------

\* the values of the max_posts parameter: below, at and above the number of
\* pending rows, and the default
MaxPostsChoices == {1, 2, MAX_POSTS}

RowBskyPlain == to_sheet_row(create_embed("bluesky", BskyPlain, ArticleUrl1, NetDefault))
RowBskyOther == to_sheet_row(create_embed("bluesky", BskyDid, ArticleUrl1, NetDefault))

\* the logs the call is made on: pending rows among rows of other platforms and
\* rows already marked
PostLogs ==
    {<<>>,
     <<RowTwCanon>>,
     <<RowTwCanon, RowBskyOld>>,
     <<RowBskyOld, RowTwCanon, RowBskyPlain, RowBskyOther>>,
     <<RowBskyOld, [RowBskyPlain EXCEPT !.repost_status = "posted"], RowBskyOther,
       [RowBskyOther EXCEPT !.repost_status = "failed"]>>}

InitPost ==
    /\ AsmOff /\ NrmOff
    /\ header = "good"
    /\ log \in PostLogs
    /\ wpc = [w \in WriterIds |-> IF w = 1 THEN "repost" ELSE "idle"]
    /\ runs = [w \in WriterIds |-> 0]
    /\ entries = [w \in WriterIds |-> <<>>]
    /\ all_embeds = [w \in WriterIds |-> <<>>]
    /\ existing = [w \in WriterIds |-> {}]
    /\ new_embeds = [w \in WriterIds |-> <<>>]
    /\ ret = [w \in WriterIds |-> <<>>]
    /\ io = [w \in WriterIds |-> NoCall]
    /\ \E m \in MaxPostsChoices :
          rp = [w \in WriterIds |->
                  IF w = 1 THEN [NoPass EXCEPT !.enabled = TRUE, !.max_posts = m]
                  ELSE NoPass]

NextPost == RepostStep(1)

SpecPost == InitPost /\ [][NextPost]_vars

RECURSIVE PendingRowNumbers(_, _)
\* the row numbers of the bluesky rows with status pending, from data row i on, in
\* the order of the log
PendingRowNumbers(rows, i) ==
    IF i > Len(rows) THEN <<>>
    ELSE (IF rows[i].platform = "bluesky" /\ rows[i].repost_status = "pending"
          THEN <<i + 1>> ELSE <<>>) \o PendingRowNumbers(rows, i + 1)

RowNumbers(infos) == [k \in 1..Len(infos) |-> infos[k].row_number]

MinOf(a, b) == IF a < b THEN a ELSE b

\* C27: one call of post_pending_to_bluesky attempts at most max_posts rows, each
\* at most once; the rows are the first pending rows of the log in log order; every
\* one of them is attempted whatever the outcome of the attempts before it; the
\* result is the number of attempts for which post_quote returned success, between
\* 0 and min(max_posts, number of pending rows).
C27_BoundedPass ==
    /\ [](\A w \in WriterIds :
            /\ Len(rp[w].attempted) <= rp[w].max_posts
            /\ \A i, j \in 1..Len(rp[w].attempted) :
                  i < j => rp[w].attempted[i] < rp[w].attempted[j]
            /\ 0 <= rp[w].posted /\ rp[w].posted <= Len(rp[w].attempted)
            /\ rp[w].posted <= MinOf(rp[w].max_posts, rp[w].found)
            /\ (wpc[w] = "idle" /\ rp[w].invoked) =>
                  Len(rp[w].attempted) = MinOf(rp[w].max_posts, rp[w].found))
    /\ [][\A w \in WriterIds :
            /\ (wpc[w] = "repost" /\ rp'[w].invoked) =>
                  /\ rp'[w].found \in {0, Len(PendingRowNumbers(log, 1))}
                  /\ RowNumbers(rp'[w].pending)
                       = SubSeq(PendingRowNumbers(log, 1), 1,
                                MinOf(rp'[w].max_posts, rp'[w].found))
            /\ wpc[w] = "posting" =>
                  /\ rp'[w].attempted \o RowNumbers(rp'[w].pending)
                       = rp[w].attempted \o RowNumbers(rp[w].pending)
                  /\ Len(rp'[w].attempted) = Len(rp[w].attempted) + 1
                  /\ rp'[w].posted = rp[w].posted
                                     + (IF rp'[w].last.outcome = "success" THEN 1 ELSE 0)]_vars

\* three rows were pending and max_posts is 2: the first was marked failed, the second was
\* attempted and posted, the third was left
C27_Witness ==
    /\ wpc[1] = "idle" /\ rp[1].invoked /\ rp[1].max_posts = 2 /\ rp[1].found = 3
    /\ rp[1].attempted = <<2, 4>> /\ rp[1].posted = 1
    /\ rp[1].last.outcome = "success"
    /\ log[1].repost_status = "failed" /\ log[4].repost_status = "pending"

\* ---------------------------------------------------------------------------
\* A run on a feed without entries (Spec)
\* ---------------------------------------------------------------------------

\* C28: a run whose feed source yields no entries ends at once: write_embeds_batch
\* is not called, the reposting pass is not invoked, and no row of the log changes,
\* whether or not posting is enabled.
C28_EmptyFeedEndsRun ==
    [][\A w \in WriterIds :
          (runs'[w] = runs[w] + 1 /\ entries'[w] = <<>>) =>
              /\ wpc'[w] = "idle"
              /\ log' = log /\ header' = header
              /\ io'[w] = io[w] /\ ret'[w] = <<>>
              /\ ~rp'[w].invoked /\ rp'[w].attempted = <<>>
              /\ rp'[w].quoted = rp[w].quoted]_vars

\* posting is enabled, a first run left the row it appended pending, and the
\* second run, on a feed without entries, has ended without a reposting pass
C28_Witness ==
    /\ runs[1] = 2 /\ wpc[1] = "idle" /\ rp[1].enabled /\ ~rp[1].invoked
    /\ entries[1] = <<>> /\ ret[1] = <<>>
    /\ \E i \in 1..Len(log) :
          /\ log[i].platform = "bluesky" /\ log[i].repost_status = "pending"
          /\ log[i].article_url = ArticleUrl1

\* ---------------------------------------------------------------------------
\* write_embeds_batch when the read of the post-URL column fails (Spec)
\* ---------------------------------------------------------------------------

\* C29: when the bulk read of the post URLs fails inside write_embeds_batch the
\* call goes on with an empty set: every record of the batch is taken as new, and
\* when the append succeeds all of them are appended, in batch order, and the call
\* returns (len(records), 0), whatever the log held.
C29_ReadFailureAppendsAll ==
    \A w \in WriterIds :
        (wpc[w] \in {"append", "returned"} /\ io[w].read = "fail") =>
            /\ existing[w] = {}
            /\ new_embeds[w] = all_embeds[w]
            /\ io[w].headers = "ok"
            /\ (wpc[w] = "returned" /\ io[w].append = "ok") =>
                  /\ ret[w] = <<Len(all_embeds[w]), 0>>
                  /\ log = io[w].log0 \o SheetRows(all_embeds[w])

\* the read failed on a log that holds the post URL of the one record of the
\* batch; the record was appended and counted as written
C29_Witness ==
    /\ wpc[1] = "returned" /\ io[1].read = "fail" /\ io[1].append = "ok"
    /\ Len(all_embeds[1]) = 1 /\ ret[1] = <<1, 0>>
    /\ all_embeds[1][1].post_url \in PostUrls(io[1].log0)
    /\ Len(log) = Len(io[1].log0) + 1

\* ---------------------------------------------------------------------------
\* Post identity under normalisation (SpecNorm)
\* ---------------------------------------------------------------------------

\* the detector's content patterns accept the URL
AcceptedBy(p, url) ==
    CASE p = "facebook" -> is_facebook_content_url(url)
      [] p = "twitter" -> ReSearch(TWITTER_URL_PATTERN, url).ok
      [] p = "bluesky" -> ReSearch(BSKY_URL_PATTERN, url).ok
      [] p = "tiktok" -> ReSearch(TIKTOK_URL_PATTERN, url).ok
      [] p = "instagram" -> ReSearch(INSTAGRAM_URL_PATTERN, url).ok

\* C30: two URLs that the content patterns of one detector accept and that carry
\* different post identifiers never have the same normalised URL.
C30_IdentityPreserved ==
    (/\ nrm.phase = "paired" /\ nrm.id_a # nrm.id_b
     /\ AcceptedBy(nrm.p, nrm.a) /\ AcceptedBy(nrm.p, nrm.b)) =>
        nrm.out_a # nrm.out_b

====
